---- MODULE Spec2Model ----
(***************************************************************************)
(* Verification model of the crypto trading bot core:                      *)
(*   - RateLimiter (rate_limiter.py): three bucketed windows, a lock that  *)
(*     covers can_make_request only, acquire() called from several threads *)
(*   - PortfolioManager (portfolio_manager.py): the ledger                 *)
(*   - BaseStrategy / SwingTradingStrategy / RiskManager                   *)
(*   - TradingBot (trading_bot.py): the serial trading cycle               *)
(* Time is counted in ticks of 0.1 s (the poll quantum of acquire).        *)
(* Prices are integers (ticks of the quote currency), sizes are integers   *)
(* (units of 1/SizeScale of the base currency).                            *)
(***************************************************************************)
EXTENDS Integers, Sequences, FiniteSets, TLC

\* ------------------------------------------------------------------------
\* Bounds of the model
\* ------------------------------------------------------------------------
MaxCalls == 1
MaxTicks == 2
MaxLimit == 2

\* ------------------------------------------------------------------------
\* Time units
\* ------------------------------------------------------------------------
TicksPerSecond == 10
TicksPerMinute == 600
TicksPerHour == 36000
PollQuantum == 1

None == -1

Threads == {"t1", "t2"}
TickSteps == {1, TicksPerSecond, TicksPerMinute}
Timeouts == {None, 1}

VARIABLES
    \* RateLimiter
    limits,          \* [rps, rpm, rph]: the constructor's caps
    second_window,   \* bucket -> count
    minute_window,
    hour_window,
    now,             \* time.time() in ticks
    ticks,           \* number of clock advances so far
    th,              \* per-thread frame of acquire()
    \* PortfolioManager
    pm,              \* the ledger object
    \* SwingTradingStrategy with its RiskManager
    st,
    \* TradingBot
    bot,
    settings,        \* the Settings the components read
    clock,           \* datetime.now() in hours
    ret,             \* the last call and what it returned or raised
    \* CoinbaseClient
    rq               \* the frame of _make_request

rl_vars == <<limits, second_window, minute_window, hour_window, now, ticks, th>>

nonrl_vars == <<pm, st, bot, settings, clock, ret, rq>>

vars == <<limits, second_window, minute_window, hour_window, now, ticks, th,
          pm, st, bot, settings, clock, ret, rq>>

\* ------------------------------------------------------------------------
\* Dict helpers
\* ------------------------------------------------------------------------
EmptyDict == [k \in {} |-> 0]

DictGet(d, k, default) == IF k \in DOMAIN d THEN d[k] ELSE default

DictPut(d, k, v) == [x \in (DOMAIN d) \cup {k} |-> IF x = k THEN v ELSE d[x]]

DictDel(d, ks) == [x \in (DOMAIN d) \ ks |-> d[x]]

RECURSIVE SumOver(_, _)
SumOver(d, ks) ==
    IF ks = {} THEN 0
    ELSE LET k == CHOOSE x \in ks : TRUE
         IN d[k] + SumOver(d, ks \ {k})

DictSum(d) == SumOver(d, DOMAIN d)

Min(a, b) == IF a <= b THEN a ELSE b
Max(a, b) == IF a >= b THEN a ELSE b

\* ------------------------------------------------------------------------
\* Inputs of the ledger and the strategy
\* ------------------------------------------------------------------------
MaxTrades == 2
MaxCloses == 1

Symbols == {"BTC-USD", "ETH-USD"}
Sides == {"buy", "sell"}
InitialBalances == {10000}
LedgerSizes == {10, 30}
LedgerEntryPrices == {400}
LedgerPrices == {200, 600}

\* A call that has not happened, and the value a call returns
NoCall == [op |-> "none", symbol |-> "", price |-> 0, raised |-> "",
           isnone |-> TRUE, val |-> 0, flag |-> FALSE, arg |-> << >>, signal |-> ""]

Returned(op, symbol, price, v) ==
    [op |-> op, symbol |-> symbol, price |-> price, raised |-> "",
     isnone |-> FALSE, val |-> v, flag |-> FALSE, arg |-> << >>, signal |-> ""]

ReturnedNone(op, symbol, price) ==
    [op |-> op, symbol |-> symbol, price |-> price, raised |-> "",
     isnone |-> TRUE, val |-> 0, flag |-> FALSE, arg |-> << >>, signal |-> ""]

ReturnedBool(op, symbol, price, b) ==
    [op |-> op, symbol |-> symbol, price |-> price, raised |-> "",
     isnone |-> FALSE, val |-> 0, flag |-> b, arg |-> << >>, signal |-> ""]

Raised(op, symbol, price, exc) ==
    [op |-> op, symbol |-> symbol, price |-> price, raised |-> exc,
     isnone |-> TRUE, val |-> 0, flag |-> FALSE, arg |-> << >>, signal |-> ""]

\* ------------------------------------------------------------------------
\* Position (base_strategy.py) and the ledger (portfolio_manager.py)
\* ------------------------------------------------------------------------
\* Position dataclass; peak_price / valley_price are the attributes that
\* SwingTradingStrategy.update_position_price attaches later (None: absent)
Position(symbol, side, size, entry_price, current_price, stop_loss, take_profit, timestamp, order_id) ==
    [symbol |-> symbol, side |-> side, size |-> size, entry_price |-> entry_price,
     current_price |-> current_price, stop_loss |-> stop_loss,
     take_profit |-> take_profit, unrealized_pnl |-> 0, timestamp |-> timestamp,
     order_id |-> order_id, peak_price |-> None, valley_price |-> None]

\* A drawdown is a ratio; it is kept as numerator / denominator
Frac(n, d) == [n |-> n, d |-> d]
\* a.n / a.d <= b.n / b.d, decided on the quotients and remainders so that no
\* product of two balances is formed
RECURSIVE FracLeq(_, _)
FracLeq(a, b) ==
    LET qa == a.n \div a.d
        qb == b.n \div b.d
        ra == a.n % a.d
        rb == b.n % b.d
    IN IF qa # qb THEN qa < qb
       ELSE IF ra = 0 THEN TRUE
       ELSE IF rb = 0 THEN FALSE
       ELSE FracLeq(Frac(b.d, rb), Frac(a.d, ra))
FracMax_latest(a, b) == b

\* max(self.max_drawdown, current_drawdown), line 223
FracMax(a, b) == IF FracLeq(b, a) THEN a ELSE b

\* PortfolioManager.__init__
NewPortfolio(initial_balance) ==
    [total_balance |-> initial_balance,
     available_balance |-> initial_balance,
     reserved_balance |-> 0,
     positions |-> EmptyDict,
     trade_history |-> << >>,
     peak_balance |-> initial_balance,
     max_drawdown |-> Frac(0, 1),
     total_trades |-> 0,
     winning_trades |-> 0,
     losing_trades |-> 0,
     total_realized_pnl |-> 0,
     daily_pnl |-> 0,
     daily_pnl_history |-> << >>,
     balance_history |-> << >>,
     last_daily_reset |-> 0]

\* add_position lines 139-146
required_value(position) == position.size * position.entry_price

\* variant: the funds check against the total balance instead of the available
add_position_raises_total(p, position) ==
    required_value(position) > p.total_balance

add_position_raises(p, position) ==
    required_value(position) > p.available_balance

\* add_position lines 149-153
pm_add_position(p, position) ==
    [p EXCEPT !.positions = DictPut(@, position.symbol, position),
              !.available_balance = @ - required_value(position),
              !.reserved_balance = @ + required_value(position)]

\* variant: the two sides exchanged
close_pnl_swapped(position, exit_price) ==
    IF position.side = "buy"
    THEN (position.entry_price - exit_price) * position.size
    ELSE (exit_price - position.entry_price) * position.size

\* the P&L of closing position at exit_price (close_position lines 194-197,
\* remove_position lines 304-307)
close_pnl(position, exit_price) ==
    IF position.side = "buy"
    THEN (exit_price - position.entry_price) * position.size
    ELSE (position.entry_price - exit_price) * position.size

TradeHistory(position, exit_price, pnl, strategy, reason) ==
    [symbol |-> position.symbol, side |-> position.side,
     entry_price |-> position.entry_price, exit_price |-> exit_price,
     size |-> position.size, pnl |-> pnl, strategy |-> strategy, reason |-> reason]

\* variant: the close releases the exit value from the reserve
pm_close_position_exit_reserve(p, symbol, exit_price, reason, strategy) ==
    LET position == p.positions[symbol]
        pnl == close_pnl(position, exit_price)
        close_value == position.size * exit_price
    IN [p EXCEPT !.available_balance = @ + close_value,
                 !.reserved_balance = @ - close_value,
                 !.total_balance = @ + pnl,
                 !.total_trades = @ + 1,
                 !.trade_history =
                     Append(@, TradeHistory(position, exit_price, pnl, strategy, reason)),
                 !.positions = DictDel(@, {symbol})]

\* close_position lines 191-241, for a symbol that has an open position
pm_close_position(p, symbol, exit_price, reason, strategy) ==
    LET position == p.positions[symbol]
        pnl == close_pnl(position, exit_price)
        close_value == position.size * exit_price
        total == p.total_balance + pnl
        peak == IF total > p.peak_balance THEN total ELSE p.peak_balance
        current_drawdown == Frac(peak - total, peak)
    IN [p EXCEPT !.available_balance = @ + close_value,
                 !.reserved_balance = @ - (position.size * position.entry_price),
                 !.total_balance = total,
                 !.total_trades = @ + 1,
                 !.total_realized_pnl = @ + pnl,
                 !.daily_pnl = @ + pnl,
                 !.winning_trades = IF pnl > 0 THEN @ + 1 ELSE @,
                 !.losing_trades = IF pnl > 0 THEN @ ELSE @ + 1,
                 !.peak_balance = peak,
                 !.max_drawdown = FracMax(@, current_drawdown),
                 !.trade_history =
                     Append(@, TradeHistory(position, exit_price, pnl, strategy, reason)),
                 !.positions = DictDel(@, {symbol})]

pm_close_position_call_counted(p, symbol, exit_price, reason, strategy) ==
    IF symbol \notin DOMAIN p.positions
    THEN [p EXCEPT !.total_trades = @ + 1, !.losing_trades = @ + 1]
    ELSE pm_close_position(p, symbol, exit_price, reason, strategy)

\* close_position, the whole call: lines 187-189 return None for a symbol
\* that has no open position before anything is touched
pm_close_position_call(p, symbol, exit_price, reason, strategy) ==
    IF symbol \notin DOMAIN p.positions
    THEN p
    ELSE pm_close_position(p, symbol, exit_price, reason, strategy)

\* update_position_prices lines 261-270 for one position
reprice(position, price) ==
    [position EXCEPT !.current_price = price,
                     !.unrealized_pnl =
                         IF position.side = "buy"
                         THEN (price - position.entry_price) * position.size
                         ELSE (position.entry_price - price) * position.size]

pm_update_position_prices_marked(p, prices) ==
    [p EXCEPT !.positions =
                [sym \in DOMAIN p.positions |->
                    IF sym \in DOMAIN prices THEN reprice(p.positions[sym], prices[sym])
                    ELSE p.positions[sym]],
              !.total_balance =
                @ + DictSum([sym \in (DOMAIN p.positions) \cap (DOMAIN prices) |->
                               reprice(p.positions[sym], prices[sym]).unrealized_pnl
                               - p.positions[sym].unrealized_pnl])]

\* update_position_prices: prices is a dict symbol -> price
pm_update_position_prices(p, prices) ==
    [p EXCEPT !.positions =
        [sym \in DOMAIN p.positions |->
            IF sym \in DOMAIN prices THEN reprice(p.positions[sym], prices[sym])
            ELSE p.positions[sym]]]

\* ------------------------------------------------------------------------
\* Settings (settings.py) and the strategy parameters (swing_strategy.py).
\* Strength, confidence and percentages are whole percents; the reward ratio
\* 2.5 is kept as 25 tenths.
\* ------------------------------------------------------------------------
risk_percentage == 2
max_daily_loss == 5
min_position_size == 10
max_position_size == 1000
default_stop_loss == 2
signal_strength_threshold == 70
base_min_confidence == 60
min_signal_strength == 70
min_confidence == 65
medium_signal_confidence == 75
stop_loss_percentage == 3
take_profit_ratio_tenths == 25
max_hold_days == 14
min_volume_threshold == 1000000
trailing_percentage == 2
default_account_balance == 10000
HoursPerDay == 24

StrategyName == "Swing Trading"
StrategyKey == "swing_trading"

SignalTypes == {"STRONG_BUY", "BUY", "HOLD", "SELL", "STRONG_SELL"}

\* TradingSignal dataclass
TradingSignal(symbol, signal_type, strength, confidence, entry_price) ==
    [symbol |-> symbol, signal_type |-> signal_type, strength |-> strength,
     confidence |-> confidence, entry_price |-> entry_price,
     stop_loss |-> None, take_profit |-> None]

\* "buy" if signal_type in [BUY, STRONG_BUY] else "sell"
signal_side(signal) ==
    IF signal.signal_type \in {"BUY", "STRONG_BUY"} THEN "buy" ELSE "sell"

\* BaseStrategy.__init__ with its RiskManager
NewStrategy ==
    [name |-> StrategyName,
     is_active |-> TRUE,
     positions |-> EmptyDict,
     total_trades |-> 0,
     winning_trades |-> 0,
     losing_trades |-> 0,
     total_pnl |-> 0,
     max_drawdown |-> Frac(0, 1),
     peak_balance |-> 0,
     risk_manager |-> [daily_pnl |-> 0, open_positions |-> 0]]

\* BaseStrategy.validate_signal
validate_signal(s, signal) ==
    /\ ~(signal.strength < signal_strength_threshold)
    /\ ~(signal.confidence < base_min_confidence)
    /\ ~(signal.symbol \in DOMAIN s.positions)

\* SwingTradingStrategy._validate_swing_signal
validate_swing_signal(signal, market_data) ==
    /\ ~(signal.strength < min_signal_strength)
    /\ ~(signal.confidence < min_confidence)
    /\ ~(DictGet(market_data, "volume", 0) < min_volume_threshold)
    /\ signal.signal_type # "HOLD"

\* variant: medium signals enter whatever their confidence
should_enter_position_any(signal) ==
    signal.signal_type \in {"STRONG_BUY", "STRONG_SELL", "BUY", "SELL"}

\* SwingTradingStrategy._should_enter_position
should_enter_position(signal) ==
    IF signal.signal_type \in {"STRONG_BUY", "STRONG_SELL"} THEN TRUE
    ELSE IF signal.signal_type \in {"BUY", "SELL"}
         THEN signal.confidence >= medium_signal_confidence
         ELSE FALSE

\* StopLossManager.calculate_fixed_stop_loss
calculate_fixed_stop_loss(entry_price, side, stop_pct) ==
    IF side = "buy" THEN (entry_price * (100 - stop_pct)) \div 100
    ELSE (entry_price * (100 + stop_pct)) \div 100

\* TakeProfitManager.calculate_risk_reward_take_profit, the ratio in tenths
calculate_risk_reward_take_profit(entry_price, stop_loss_price, side, ratio_tenths) ==
    IF side = "buy"
    THEN entry_price + ((entry_price - stop_loss_price) * ratio_tenths) \div 10
    ELSE entry_price - ((stop_loss_price - entry_price) * ratio_tenths) \div 10

\* PositionSizer.calculate_position_size: the conditions that raise
\* RiskManagementException
position_size_raises(account_balance, entry_price, stop_loss_price, side) ==
    \/ account_balance <= 0
    \/ entry_price <= 0
    \/ stop_loss_price <= 0
    \/ (side = "buy" /\ stop_loss_price >= entry_price)
    \/ (side # "buy" /\ stop_loss_price <= entry_price)

calculate_position_size_uncapped(account_balance, entry_price, stop_loss_price, side) ==
    LET risk_per_unit == IF side = "buy" THEN entry_price - stop_loss_price
                         ELSE stop_loss_price - entry_price
        risk_amount == (account_balance * risk_percentage) \div 100
        clamped == Min(Max(risk_amount \div risk_per_unit, min_position_size),
                       max_position_size)
    IN [base_size |-> clamped,
        quote_size |-> clamped * entry_price,
        risk_amount |-> risk_amount,
        stop_loss_price |-> stop_loss_price]

\* PositionSizer.calculate_position_size lines 104-136; sizes are whole units
calculate_position_size(account_balance, entry_price, stop_loss_price, side) ==
    LET risk_per_unit == IF side = "buy" THEN entry_price - stop_loss_price
                         ELSE stop_loss_price - entry_price
        risk_amount == (account_balance * risk_percentage) \div 100
        clamped == Min(Max(risk_amount \div risk_per_unit, min_position_size),
                       max_position_size)
    IN IF clamped * entry_price > account_balance
       THEN [base_size |-> account_balance \div entry_price,
             quote_size |-> account_balance,
             risk_amount |-> (account_balance \div entry_price) * risk_per_unit,
             stop_loss_price |-> stop_loss_price]
       ELSE [base_size |-> clamped,
             quote_size |-> clamped * entry_price,
             risk_amount |-> risk_amount,
             stop_loss_price |-> stop_loss_price]

\* BaseStrategy.calculate_position_size: the stop the size is computed for
sizing_stop_loss(signal) ==
    IF signal.stop_loss = None \/ signal.stop_loss = 0
    THEN calculate_fixed_stop_loss(signal.entry_price, signal_side(signal),
                                   default_stop_loss)
    ELSE signal.stop_loss

\* RiskManager.validate_trade
validate_trade_without_daily_loss(rm, account_balance, entry_price, position_size, side) ==
    IF rm.open_positions >= settings.max_positions THEN FALSE
    ELSE IF position_size < min_position_size THEN FALSE
    ELSE IF position_size > max_position_size THEN FALSE
    ELSE IF position_size * entry_price > account_balance THEN FALSE
    ELSE TRUE

\* RiskManager.validate_trade lines 420-440
validate_trade(rm, account_balance, entry_price, position_size, side) ==
    IF rm.open_positions >= settings.max_positions THEN FALSE
    ELSE IF position_size < min_position_size THEN FALSE
    ELSE IF position_size > max_position_size THEN FALSE
    ELSE IF position_size * entry_price > account_balance THEN FALSE
    ELSE IF rm.daily_pnl < -max_daily_loss THEN FALSE
    ELSE TRUE

\* SwingTradingStrategy._calculate_swing_stop_loss / _calculate_swing_take_profit
calculate_swing_stop_loss(signal) ==
    calculate_fixed_stop_loss(signal.entry_price, signal_side(signal),
                              stop_loss_percentage)

calculate_swing_take_profit(signal, stop_loss) ==
    calculate_risk_reward_take_profit(signal.entry_price, stop_loss,
                                      signal_side(signal), take_profit_ratio_tenths)

\* BaseStrategy.create_order_from_signal with order_type LIMIT
create_order_from_signal(s, signal, position_size) ==
    [symbol |-> signal.symbol,
     side |-> signal_side(signal),
     order_type |-> "limit_order",
     size |-> position_size.base_size,
     price |-> signal.entry_price,
     stop_loss |-> position_size.stop_loss_price,
     take_profit |-> IF (signal.take_profit = None \/ signal.take_profit = 0)
                        /\ position_size.stop_loss_price # 0
                     THEN calculate_risk_reward_take_profit(signal.entry_price,
                              position_size.stop_loss_price, signal_side(signal), 20)
                     ELSE signal.take_profit,
     client_order_id |-> None,
     metadata |-> [strategy |-> s.name, signal_strength |-> signal.strength,
                   signal_confidence |-> signal.confidence,
                   risk_amount |-> position_size.risk_amount]]

NoOrder == [isnone |-> TRUE, order |-> << >>]
SomeOrder(o) == [isnone |-> FALSE, order |-> o]

\* SwingTradingStrategy.analyze_signal lines 79-134: sizing, risk validation,
\* order; an exception inside is caught and gives None
analyze_signal_sized(s, signal, market_data) ==
    LET account_balance == DictGet(market_data, "account_balance", default_account_balance)
        stop_for_size == sizing_stop_loss(signal)
        side == signal_side(signal)
    IN IF position_size_raises(account_balance, signal.entry_price, stop_for_size, side)
       THEN NoOrder
       ELSE LET position_size == calculate_position_size(account_balance,
                                     signal.entry_price, stop_for_size, side)
                stop_loss == calculate_swing_stop_loss(signal)
                take_profit == calculate_swing_take_profit(signal, stop_loss)
                updated == [signal EXCEPT !.stop_loss = stop_loss,
                                          !.take_profit = take_profit]
            IN IF ~validate_trade(s.risk_manager, account_balance,
                                  signal.entry_price, position_size.base_size, side)
               THEN NoOrder
               ELSE SomeOrder(create_order_from_signal(s, updated, position_size))

\* SwingTradingStrategy.analyze_signal
analyze_signal(s, signal, market_data) ==
    IF ~s.is_active THEN NoOrder
    ELSE IF ~validate_signal(s, signal) THEN NoOrder
    ELSE IF ~validate_swing_signal(signal, market_data) THEN NoOrder
    ELSE IF ~should_enter_position(signal) THEN NoOrder
    ELSE analyze_signal_sized(s, signal, market_data)

\* SwingTradingStrategy._check_stop_loss
check_stop_loss(position, current_price) ==
    IF position.stop_loss = None \/ position.stop_loss = 0 THEN FALSE
    ELSE IF position.side = "buy" THEN current_price <= position.stop_loss
    ELSE current_price >= position.stop_loss

\* variant: the target has to be passed, not reached
check_take_profit_strict(position, current_price) ==
    IF position.take_profit = None \/ position.take_profit = 0 THEN FALSE
    ELSE IF position.side = "buy" THEN current_price > position.take_profit
    ELSE current_price < position.take_profit

\* SwingTradingStrategy._check_take_profit
check_take_profit(position, current_price) ==
    IF position.take_profit = None \/ position.take_profit = 0 THEN FALSE
    ELSE IF position.side = "buy" THEN current_price >= position.take_profit
    ELSE current_price <= position.take_profit

\* variant: the hold limit has to be exceeded
check_max_hold_time_strict(position, t) ==
    IF position.timestamp = None THEN FALSE
    ELSE (t - position.timestamp) \div HoursPerDay > max_hold_days

\* SwingTradingStrategy._check_max_hold_time; timedelta.days is the floor
check_max_hold_time(position, t) ==
    IF position.timestamp = None THEN FALSE
    ELSE (t - position.timestamp) \div HoursPerDay >= max_hold_days

\* SwingTradingStrategy._check_trend_reversal
check_trend_reversal(position, market_data) ==
    LET trend == DictGet(market_data, "trend", "sideways")
    IN IF position.side = "buy" /\ trend = "bearish" THEN TRUE
       ELSE IF position.side = "sell" /\ trend = "bullish" THEN TRUE
       ELSE FALSE

\* SwingTradingStrategy._check_trailing_stop:
\* current_price <= peak_price * (1 - 2/100), compared without rounding
check_trailing_stop(position, current_price) ==
    IF position.side = "buy"
    THEN IF position.peak_price # None
         THEN current_price * 100 <= position.peak_price * (100 - trailing_percentage)
         ELSE FALSE
    ELSE IF position.valley_price # None
         THEN current_price * 100 >= position.valley_price * (100 + trailing_percentage)
         ELSE FALSE

\* SwingTradingStrategy.should_close_position: the check that fires first, as
\* the log line names it, or "" when the position stays open
close_reason(position, market_data, t) ==
    LET current_price == position.current_price
    IN IF check_stop_loss(position, current_price) THEN "Stop-loss triggered"
       ELSE IF check_take_profit(position, current_price) THEN "Take-profit triggered"
       ELSE IF check_max_hold_time(position, t) THEN "Max hold time reached"
       ELSE IF check_trend_reversal(position, market_data) THEN "Trend reversal detected"
       ELSE IF check_trailing_stop(position, current_price) THEN "Trailing stop triggered"
       ELSE ""

should_close_position(position, market_data, t) ==
    close_reason(position, market_data, t) # ""

\* RiskManager.update_position_count
update_position_count(rm, change) ==
    [rm EXCEPT !.open_positions = Max(0, @ + change)]

\* BaseStrategy.add_position
st_add_position(s, position) ==
    [s EXCEPT !.positions = DictPut(@, position.symbol, position),
              !.risk_manager = update_position_count(@, 1)]

\* BaseStrategy.remove_position lines 301-328, for a symbol the strategy holds
st_remove_position(s, symbol, exit_price) ==
    LET position == s.positions[symbol]
        pnl == close_pnl(position, exit_price)
        total == s.total_pnl + pnl
        peak == IF total > s.peak_balance THEN total ELSE s.peak_balance
        current_drawdown == IF peak > 0 THEN Frac(peak - total, peak) ELSE Frac(0, 1)
    IN [s EXCEPT !.total_trades = @ + 1,
                 !.total_pnl = total,
                 !.winning_trades = IF pnl > 0 THEN @ + 1 ELSE @,
                 !.losing_trades = IF pnl > 0 THEN @ ELSE @ + 1,
                 !.peak_balance = peak,
                 !.max_drawdown = FracMax(@, current_drawdown),
                 !.positions = DictDel(@, {symbol}),
                 !.risk_manager = [update_position_count(@, -1)
                                     EXCEPT !.daily_pnl = @ + pnl]]

\* SwingTradingStrategy.update_position_price (with BaseStrategy's)
track_extreme_latest(position, current_price) ==
    IF position.side = "buy"
    THEN [position EXCEPT !.peak_price = current_price]
    ELSE [position EXCEPT !.valley_price = current_price]

\* SwingTradingStrategy.update_position_price lines 399-405
track_extreme(position, current_price) ==
    IF position.side = "buy"
    THEN IF position.peak_price = None \/ current_price > position.peak_price
         THEN [position EXCEPT !.peak_price = current_price] ELSE position
    ELSE IF position.valley_price = None \/ current_price < position.valley_price
         THEN [position EXCEPT !.valley_price = current_price] ELSE position

st_update_position_price(s, symbol, current_price) ==
    IF symbol \in DOMAIN s.positions
    THEN [s EXCEPT !.positions[symbol] = track_extreme(reprice(@, current_price),
                                                       current_price)]
    ELSE s

\* ------------------------------------------------------------------------
\* TradingBot (trading_bot.py).  A world is the bot with its ledger and its
\* strategy: [pm, st, bot].
\* ------------------------------------------------------------------------
TradingPairs == <<"BTC-USD", "ETH-USD">>

\* TradingBot.__init__
NewBot ==
    [market_data_cache |-> EmptyDict,
     pending_orders |-> << >>,
     orders_created |-> 0,
     trades_executed |-> 0,
     orders_placed |-> 0,
     phase |-> "sleep",
     cycles |-> 0]

DateOf(t) == t \div HoursPerDay

\* market_data_cache.get(symbol, {})
cached(b, symbol) == DictGet(b.market_data_cache, symbol, EmptyDict)

\* market_data_cache.get(symbol, {}).get("price"), 0 when there is none
cached_price(b, symbol) == DictGet(cached(b, symbol), "price", 0)

\* PortfolioManager.check_daily_reset / reset_daily_metrics
check_daily_reset(p, t) ==
    IF DateOf(t) > p.last_daily_reset
    THEN [p EXCEPT !.daily_pnl_history = IF p.daily_pnl # 0 THEN Append(@, p.daily_pnl)
                                          ELSE @,
                   !.balance_history = Append(@, p.total_balance),
                   !.daily_pnl = 0,
                   !.last_daily_reset = DateOf(t)]
    ELSE p

\* _update_market_data: tickers maps a symbol to the ticker the client
\* returned; a symbol that is absent had an error or an empty ticker
update_market_data(w, tickers) ==
    [w EXCEPT !.bot.market_data_cache =
        [sym \in (DOMAIN @) \cup (DOMAIN tickers) |->
            IF sym \in DOMAIN tickers
            THEN [k \in {"price", "volume", "account_balance"} |->
                    IF k = "price" THEN tickers[sym].price
                    ELSE IF k = "volume" THEN tickers[sym].volume
                    ELSE w.pm.total_balance]
            ELSE @[sym]]]

\* the two dict entries hold the same Position object
same_object(w, symbol) ==
    /\ symbol \in DOMAIN w.pm.positions
    /\ symbol \in DOMAIN w.st.positions
    /\ w.pm.positions[symbol].order_id = w.st.positions[symbol].order_id

\* _update_position_prices
update_position_prices(w) ==
    LET prices == [sym \in {x \in DOMAIN w.pm.positions :
                               x \in DOMAIN w.bot.market_data_cache} |->
                      w.bot.market_data_cache[sym]["price"]]
        RECURSIVE UpdateStrategy(_, _)
        UpdateStrategy(s, syms) ==
            IF syms = {} THEN s
            ELSE LET sym == CHOOSE x \in syms : TRUE
                 IN UpdateStrategy(st_update_position_price(s, sym, prices[sym]),
                                   syms \ {sym})
        new_pm == pm_update_position_prices(w.pm, prices)
        new_st == UpdateStrategy(w.st, DOMAIN prices)
    IN IF DOMAIN prices = {} THEN w
       ELSE [w EXCEPT !.st = new_st,
                      !.pm = [new_pm EXCEPT !.positions =
                                [sym \in DOMAIN new_pm.positions |->
                                    IF sym \in DOMAIN prices /\ same_object(w, sym)
                                    THEN new_st.positions[sym]
                                    ELSE new_pm.positions[sym]]]]

\* _close_position(symbol, reason, strategy_name)
close_position(w, symbol, reason, strategy_name) ==
    LET current_price == cached_price(w.bot, symbol)
    IN IF current_price = 0 THEN w
       ELSE [w EXCEPT
               !.pm = IF symbol \in DOMAIN w.pm.positions
                      THEN pm_close_position(w.pm, symbol, current_price, reason,
                                             strategy_name)
                      ELSE @,
               !.st = IF strategy_name = StrategyKey /\ symbol \in DOMAIN w.st.positions
                      THEN st_remove_position(w.st, symbol, current_price)
                      ELSE @]

\* the symbols _check_position_exits collects for closing
positions_to_close(w, t) ==
    {sym \in DOMAIN w.pm.positions :
        /\ sym \in DOMAIN w.st.positions
        /\ should_close_position(w.pm.positions[sym], cached(w.bot, sym), t)}

RECURSIVE CloseAll(_, _, _, _)
CloseAll(w, syms, reason, strategy_name) ==
    IF syms = {} THEN w
    ELSE LET sym == CHOOSE x \in syms : TRUE
         IN CloseAll(close_position(w, sym, reason, strategy_name),
                     syms \ {sym}, reason, strategy_name)

\* _check_position_exits
check_position_exits(w, t) ==
    CloseAll(w, positions_to_close(w, t), "strategy_exit", StrategyKey)

\* force_close_all_positions
force_close_all_positions(w) ==
    CloseAll(w, DOMAIN w.pm.positions, "force_close", "manual")

\* _process_signal_with_strategies: the order, if any, becomes pending under
\* the id strategy-key_symbol_timestamp
process_signal_with_strategies(w, signal) ==
    LET result == analyze_signal(w.st, signal, cached(w.bot, signal.symbol))
    IN IF ~w.st.is_active \/ result.isnone THEN w
       ELSE [w EXCEPT
               !.bot.orders_created = @ + 1,
               !.bot.pending_orders =
                   Append(@, [result.order EXCEPT
                                !.client_order_id = w.bot.orders_created + 1])]

\* _process_new_signals: signals maps a symbol to the analysis of the signal
\* bot; _convert_to_trading_signal gives no signal without a current price
RECURSIVE ProcessSignals(_, _, _)
ProcessSignals(w, signals, i) ==
    IF i > Len(TradingPairs) THEN w
    ELSE LET sym == TradingPairs[i]
             price == cached_price(w.bot, sym)
         IN IF sym \in DOMAIN signals /\ price # 0
            THEN ProcessSignals(
                    process_signal_with_strategies(w,
                        TradingSignal(sym, signals[sym].signal_type,
                                      signals[sym].strength, signals[sym].confidence,
                                      price)),
                    signals, i + 1)
            ELSE ProcessSignals(w, signals, i + 1)

process_new_signals(w, signals) == ProcessSignals(w, signals, 1)

\* _simulate_order_execution: can the order be filled
fill_succeeds(w, order) ==
    LET current_price == cached_price(w.bot, order.symbol)
        fill_price == IF order.price # None /\ order.price # 0 THEN order.price
                      ELSE current_price
    IN /\ current_price # 0
       /\ ~add_position_raises(w.pm,
              Position(order.symbol, order.side, order.size, fill_price,
                       current_price, order.stop_loss, order.take_profit, 0,
                       order.client_order_id))

\* _simulate_order_execution, when it succeeds at time t
simulate_order_execution(w, order, t) ==
    LET current_price == cached_price(w.bot, order.symbol)
        fill_price == IF order.price # None /\ order.price # 0 THEN order.price
                      ELSE current_price
        position == Position(order.symbol, order.side, order.size, fill_price,
                             current_price, order.stop_loss, order.take_profit, t,
                             order.client_order_id)
    IN [w EXCEPT !.pm = pm_add_position(@, position),
                 !.st = IF order.metadata.strategy = StrategyKey
                        THEN st_add_position(@, position) ELSE @,
                 !.bot.trades_executed = @ + 1]

\* _execute_pending_orders: orders are tried in insertion order; the ones
\* that were filled leave the pending dict
RECURSIVE ExecuteOrders(_, _, _, _)
ExecuteOrders(w, orders, kept, t) ==
    IF orders = << >> THEN [w EXCEPT !.bot.pending_orders = kept]
    ELSE LET order == Head(orders)
         IN IF fill_succeeds(w, order)
            THEN ExecuteOrders(
                    [simulate_order_execution(w, order, t)
                        EXCEPT !.bot.orders_placed = @ + 1],
                    Tail(orders), kept, t)
            ELSE ExecuteOrders(w, Tail(orders), Append(kept, order), t)

execute_pending_orders(w, t) == ExecuteOrders(w, w.bot.pending_orders, << >>, t)

World == [pm |-> pm, st |-> st, bot |-> bot]

\* the frame of a _make_request that has not been called
NoRequest ==
    [pc |-> "idle", max_retries |-> 0, attempt |-> 0, permits |-> 0, requests |-> 0,
     sleeps |-> 0, waited |-> 0, e |-> {}, outcome |-> ""]

RequestQuiet == rq = NoRequest

PMInit == pm \in {NewPortfolio(b) : b \in InitialBalances}

LedgerQuiet == pm = NewPortfolio(0) /\ ret = NoCall
StrategyQuiet == st = NewStrategy /\ clock = 0 /\ settings = [max_positions |-> 5]
BotQuiet == bot = NewBot

\* ------------------------------------------------------------------------
\* RateLimiter
\* ------------------------------------------------------------------------
SecondOf(t) == t \div TicksPerSecond
MinuteOf(t) == t \div TicksPerMinute
HourOf(t) == t \div TicksPerHour

\* _cleanup_windows: keep the last second, the last 2 minutes, the last 2 hours
CleanupSeconds(w, current_second) ==
    DictDel(w, {s \in DOMAIN w : s < current_second - 1})
CleanupMinutes(w, current_minute) ==
    DictDel(w, {m \in DOMAIN w : m < current_minute - 2})
CleanupHours_keeping(w, current_hour) == w

CleanupHours(w, current_hour) ==
    DictDel(w, {h \in DOMAIN w : h < current_hour - 2})

CanMakeRequestVerdict_current_buckets(sw, mw, hw, t) ==
    /\ DictGet(sw, SecondOf(t), 0) < limits.rps
    /\ DictGet(mw, MinuteOf(t), 0) < limits.rpm + 1
    /\ DictGet(hw, HourOf(t), 0) < limits.rph + 1

\* The verdict of can_make_request on already cleaned windows at time t
CanMakeRequestVerdict(sw, mw, hw, t) ==
    /\ DictGet(sw, SecondOf(t), 0) < limits.rps
    /\ DictSum(mw) < limits.rpm
    /\ DictSum(hw) < limits.rph

\* wait_if_needed after its can_make_request said no: the unlocked estimate.
\* The result is None or the minimum remaining time of the saturated windows.
WaitTimes(t) ==
    (IF DictGet(second_window, SecondOf(t), 0) >= limits.rps
        THEN {TicksPerSecond - (t % TicksPerSecond)} ELSE {})
    \cup
    (IF DictSum(minute_window) >= limits.rpm
        THEN {TicksPerMinute - (t % TicksPerMinute)} ELSE {})
    \cup
    (IF DictSum(hour_window) >= limits.rph
        THEN {TicksPerHour - (t % TicksPerHour)} ELSE {})

WaitTime(t) ==
    IF WaitTimes(t) = {} THEN None
    ELSE CHOOSE w \in WaitTimes(t) : \A v \in WaitTimes(t) : w <= v

IdleFrame == [pc |-> "idle", start |-> 0, timeout |-> None, t |-> 0, tmp |-> 0,
              wait |-> None, wake |-> 0, calls |-> 0, granted |-> 0,
              recorded |-> 0]

RLInit ==
    /\ limits \in {[rps |-> a, rpm |-> a + 1, rph |-> a + 2] : a \in 1..MaxLimit}
    /\ second_window = EmptyDict
    /\ minute_window = EmptyDict
    /\ hour_window = EmptyDict
    /\ now = 0
    /\ ticks = 0
    /\ th = [i \in Threads |-> IdleFrame]

\* The clock advances
Tick ==
    /\ ticks < MaxTicks
    /\ \E d \in TickSteps : now' = now + d
    /\ ticks' = ticks + 1
    /\ UNCHANGED <<limits, second_window, minute_window, hour_window, th>>
    /\ UNCHANGED nonrl_vars

\* acquire(timeout): line 161, start_time = time.time()
AcquireCall(i) ==
    /\ th[i].pc = "idle"
    /\ th[i].calls < MaxCalls
    /\ \E to \in Timeouts :
          th' = [th EXCEPT ![i].pc = "check", ![i].start = now, ![i].timeout = to,
                           ![i].calls = @ + 1, ![i].recorded = 0]
    /\ UNCHANGED <<limits, second_window, minute_window, hour_window, now, ticks>>
    /\ UNCHANGED nonrl_vars

\* can_make_request(), the whole body under the lock: the windows after
\* _cleanup_windows, and the verdict on them
CleanedSeconds == CleanupSeconds(second_window, SecondOf(now))
CleanedMinutes == CleanupMinutes(minute_window, MinuteOf(now))
CleanedHours == CleanupHours(hour_window, HourOf(now))

can_make_request ==
    CanMakeRequestVerdict(CleanedSeconds, CleanedMinutes, CleanedHours, now)

\* acquire line 164
AcquireCheck(i) ==
    /\ th[i].pc = "check"
    /\ second_window' = CleanedSeconds
    /\ minute_window' = CleanedMinutes
    /\ hour_window' = CleanedHours
    /\ th' = [th EXCEPT ![i].pc = IF can_make_request THEN "rec_t" ELSE "wait"]
    /\ UNCHANGED <<limits, now, ticks>>
    /\ UNCHANGED nonrl_vars

\* wait_if_needed line 120
WaitIfNeededCheck(i) ==
    /\ th[i].pc = "wait"
    /\ second_window' = CleanedSeconds
    /\ minute_window' = CleanedMinutes
    /\ hour_window' = CleanedHours
    /\ th' = [th EXCEPT ![i].pc = IF can_make_request THEN "rec_t" ELSE "wait_calc"]
    /\ UNCHANGED <<limits, now, ticks>>
    /\ UNCHANGED nonrl_vars

\* wait_if_needed lines 123-146, acquire line 169
WaitIfNeededCalc(i) ==
    /\ th[i].pc = "wait_calc"
    /\ th' = [th EXCEPT ![i].wait = WaitTime(now),
                        ![i].pc = IF WaitTime(now) = None THEN "rec_t" ELSE "timeout"]
    /\ UNCHANGED <<limits, second_window, minute_window, hour_window, now, ticks>>
    /\ UNCHANGED nonrl_vars

AcquireTimeout_projected(i) ==
    /\ th[i].pc = "timeout"
    /\ IF th[i].timeout # None /\ now - th[i].start + th[i].wait > th[i].timeout
       THEN th' = [th EXCEPT ![i].pc = "idle", ![i].wait = None]
       ELSE th' = [th EXCEPT ![i].pc = "sleep",
                             ![i].wake = now + Min(th[i].wait, PollQuantum),
                             ![i].wait = None]
    /\ UNCHANGED <<limits, second_window, minute_window, hour_window, now, ticks>>
    /\ UNCHANGED nonrl_vars

\* acquire lines 174-177
AcquireTimeout(i) ==
    /\ th[i].pc = "timeout"
    /\ IF th[i].timeout # None /\ now - th[i].start >= th[i].timeout
       THEN th' = [th EXCEPT ![i].pc = "idle", ![i].wait = None]
       ELSE th' = [th EXCEPT ![i].pc = "sleep",
                             ![i].wake = now + Min(th[i].wait, PollQuantum),
                             ![i].wait = None]
    /\ UNCHANGED <<limits, second_window, minute_window, hour_window, now, ticks>>
    /\ UNCHANGED nonrl_vars

\* acquire lines 180-181: time.sleep returns once the time has passed
AcquireWake(i) ==
    /\ th[i].pc = "sleep"
    /\ now >= th[i].wake
    /\ th' = [th EXCEPT ![i].pc = "check", ![i].wake = 0]
    /\ UNCHANGED <<limits, second_window, minute_window, hour_window, now, ticks>>
    /\ UNCHANGED nonrl_vars

\* _record_request line 217: no lock is held from here on
RecordTime(i) ==
    /\ th[i].pc = "rec_t"
    /\ th' = [th EXCEPT ![i].pc = "rec_s_r", ![i].t = now]
    /\ UNCHANGED <<limits, second_window, minute_window, hour_window, now, ticks>>
    /\ UNCHANGED nonrl_vars

\* _record_request line 223, the read half and the write half
RecordSecondRead(i) ==
    /\ th[i].pc = "rec_s_r"
    /\ th' = [th EXCEPT ![i].pc = "rec_s_w",
                        ![i].tmp = DictGet(second_window, SecondOf(th[i].t), 0)]
    /\ UNCHANGED <<limits, second_window, minute_window, hour_window, now, ticks>>
    /\ UNCHANGED nonrl_vars

RecordSecondWrite(i) ==
    /\ th[i].pc = "rec_s_w"
    /\ second_window' = DictPut(second_window, SecondOf(th[i].t), th[i].tmp + 1)
    /\ th' = [th EXCEPT ![i].pc = "rec_m_r", ![i].tmp = 0, ![i].recorded = @ + 1]
    /\ UNCHANGED <<limits, minute_window, hour_window, now, ticks>>
    /\ UNCHANGED nonrl_vars

\* _record_request line 224
RecordMinuteRead(i) ==
    /\ th[i].pc = "rec_m_r"
    /\ th' = [th EXCEPT ![i].pc = "rec_m_w",
                        ![i].tmp = DictGet(minute_window, MinuteOf(th[i].t), 0)]
    /\ UNCHANGED <<limits, second_window, minute_window, hour_window, now, ticks>>
    /\ UNCHANGED nonrl_vars

RecordMinuteWrite(i) ==
    /\ th[i].pc = "rec_m_w"
    /\ minute_window' = DictPut(minute_window, MinuteOf(th[i].t), th[i].tmp + 1)
    /\ th' = [th EXCEPT ![i].pc = "rec_h_r", ![i].tmp = 0, ![i].recorded = @ + 1]
    /\ UNCHANGED <<limits, second_window, hour_window, now, ticks>>
    /\ UNCHANGED nonrl_vars

\* _record_request line 225, then acquire returns True
RecordHourRead(i) ==
    /\ th[i].pc = "rec_h_r"
    /\ th' = [th EXCEPT ![i].pc = "rec_h_w",
                        ![i].tmp = DictGet(hour_window, HourOf(th[i].t), 0)]
    /\ UNCHANGED <<limits, second_window, minute_window, hour_window, now, ticks>>
    /\ UNCHANGED nonrl_vars

RecordHourWrite(i) ==
    /\ th[i].pc = "rec_h_w"
    /\ hour_window' = DictPut(hour_window, HourOf(th[i].t), th[i].tmp + 1)
    /\ th' = [th EXCEPT ![i].pc = "idle", ![i].tmp = 0, ![i].t = 0,
                        ![i].granted = @ + 1, ![i].recorded = 0]
    /\ UNCHANGED <<limits, second_window, minute_window, now, ticks>>
    /\ UNCHANGED nonrl_vars

RLNext ==
    \/ Tick
    \/ \E i \in Threads : AcquireCall(i)
    \/ \E i \in Threads : AcquireCheck(i)
    \/ \E i \in Threads : WaitIfNeededCheck(i)
    \/ \E i \in Threads : WaitIfNeededCalc(i)
    \/ \E i \in Threads : AcquireTimeout(i)
    \/ \E i \in Threads : AcquireWake(i)
    \/ \E i \in Threads : RecordTime(i)
    \/ \E i \in Threads : RecordSecondRead(i)
    \/ \E i \in Threads : RecordSecondWrite(i)
    \/ \E i \in Threads : RecordMinuteRead(i)
    \/ \E i \in Threads : RecordMinuteWrite(i)
    \/ \E i \in Threads : RecordHourRead(i)
    \/ \E i \in Threads : RecordHourWrite(i)

RLSpecInit ==
    /\ RLInit
    /\ LedgerQuiet
    /\ StrategyQuiet
    /\ BotQuiet
    /\ RequestQuiet

SpecRL == RLSpecInit /\ [][RLNext]_vars

\* One caller of acquire(timeout) on a limiter that has already granted k
\* requests in the current second (k sequential acquire() calls at time 0 by
\* the other thread, which has returned). The caller is scheduled again and
\* again while it is inside acquire(), and time.time() keeps advancing.
Caller == "t1"

Granted(k) == IF k = 0 THEN EmptyDict ELSE DictPut(EmptyDict, 0, k)

AcquireInit ==
    /\ limits \in {[rps |-> a, rpm |-> a + 1, rph |-> a + 2] : a \in 1..MaxLimit}
    /\ \E k \in 0..MaxLimit :
          /\ k <= limits.rps
          /\ second_window = Granted(k)
          /\ minute_window = Granted(k)
          /\ hour_window = Granted(k)
          /\ th = [i \in Threads |->
                     IF i = Caller THEN IdleFrame
                     ELSE [IdleFrame EXCEPT !.calls = k, !.granted = k]]
    /\ now = 0
    /\ ticks = 0
    /\ LedgerQuiet
    /\ StrategyQuiet
    /\ BotQuiet
    /\ RequestQuiet

AcquireStep(i) ==
    \/ AcquireCheck(i) \/ WaitIfNeededCheck(i) \/ WaitIfNeededCalc(i)
    \/ AcquireTimeout(i) \/ AcquireWake(i) \/ RecordTime(i)
    \/ RecordSecondRead(i) \/ RecordSecondWrite(i)
    \/ RecordMinuteRead(i) \/ RecordMinuteWrite(i)
    \/ RecordHourRead(i) \/ RecordHourWrite(i)

AcquireNext ==
    \/ Tick
    \/ AcquireCall(Caller)
    \/ AcquireStep(Caller)

AcquireFairness == WF_vars(Tick) /\ WF_vars(AcquireStep(Caller))

SpecAcquire == AcquireInit /\ [][AcquireNext]_vars /\ AcquireFairness

\* ------------------------------------------------------------------------
\* Rate limiter claims
\* ------------------------------------------------------------------------
AllIdle == \A i \in Threads : th[i].pc = "idle"

RECURSIVE SumGranted(_)
SumGranted(S) ==
    IF S = {} THEN 0
    ELSE LET i == CHOOSE x \in S : TRUE IN th[i].granted + SumGranted(S \ {i})

TotalGranted == SumGranted(Threads)

\* C1: with concurrent callers of acquire(), no one-second bucket ever records
\* more than requests_per_second requests.
C1_SecondBucketWithinCap ==
    \A s \in DOMAIN second_window : second_window[s] <= limits.rps

\* C13: an acquire(timeout = t) with a finite t terminates while the clock
\* advances: it returns True after one record in each of the three windows,
\* or it raises RateLimitException with nothing recorded, and it raises only
\* when at least t has elapsed since the call and the limiter was found
\* saturated (wait_if_needed gave a wait).
C13_AcquireRaises(i) ==
    (th[i].pc = "timeout" /\ th'[i].pc = "idle")
    => /\ th[i].timeout # None
       /\ now - th[i].start >= th[i].timeout
       /\ th[i].wait # None
       /\ th[i].recorded = 0
       /\ th'[i].granted = th[i].granted
       /\ UNCHANGED <<second_window, minute_window, hour_window>>

C13_AcquireReturns(i) ==
    (th[i].pc = "rec_h_w" /\ th'[i].pc = "idle")
    => /\ th[i].recorded = 2
       /\ hour_window' # hour_window
          \/ hour_window[HourOf(th[i].t)] = th[i].tmp + 1
       /\ th'[i].granted = th[i].granted + 1

C13_AcquireTerminates ==
    /\ [][\A i \in Threads : C13_AcquireRaises(i) /\ C13_AcquireReturns(i)]_vars
    /\ \A i \in Threads :
          (th[i].pc # "idle" /\ th[i].timeout # None /\ ticks < MaxTicks)
              ~> (th[i].pc = "idle")

\* a call with a timeout has raised: it is over, granted nothing, and the
\* timeout has elapsed since its start
C13_Witness ==
    \E i \in Threads :
        /\ th[i].pc = "idle"
        /\ th[i].calls > 0
        /\ th[i].granted < th[i].calls
        /\ th[i].timeout # None
        /\ now - th[i].start >= th[i].timeout

\* C2: when k acquire() calls have succeeded while the current second, minute
\* and hour buckets stayed the same, each of the three counters is exactly k.
C2_RecordIsAtomic ==
    (AllIdle /\ ticks = 0) =>
        /\ DictGet(second_window, SecondOf(now), 0) = TotalGranted
        /\ DictGet(minute_window, MinuteOf(now), 0) = TotalGranted
        /\ DictGet(hour_window, HourOf(now), 0) = TotalGranted

\* ------------------------------------------------------------------------
\* One caller on a limiter whose caps may coincide, so that the k requests
\* already granted at time 0 can saturate the minute and the hour windows;
\* the caller calls once, a second passes and then whole hours until every
\* bucket of time 0 is out of the retained hours
\* ------------------------------------------------------------------------
SingleLimits ==
    {[rps |-> a, rpm |-> b, rph |-> c] :
        a \in 1..MaxLimit, b \in 1..MaxLimit, c \in 1..MaxLimit}

SingleInit ==
    /\ limits \in {l \in SingleLimits : l.rps <= l.rpm /\ l.rpm <= l.rph}
    /\ \E k \in 0..MaxLimit :
          /\ k <= limits.rps
          /\ second_window = Granted(k)
          /\ minute_window = Granted(k)
          /\ hour_window = Granted(k)
          /\ th = [i \in Threads |->
                     IF i = Caller THEN IdleFrame
                     ELSE [IdleFrame EXCEPT !.calls = k, !.granted = k]]
    /\ now = 0
    /\ ticks = 0
    /\ LedgerQuiet
    /\ StrategyQuiet
    /\ BotQuiet
    /\ RequestQuiet

\* the one call of the caller
SingleCall ==
    /\ th[Caller].calls = 0
    /\ AcquireCall(Caller)

\* the second of time 0 is over
SecondPasses ==
    /\ now < TicksPerSecond
    /\ now' = now + TicksPerSecond
    /\ UNCHANGED <<limits, second_window, minute_window, hour_window, ticks, th>>
    /\ UNCHANGED nonrl_vars

\* an hour passes; after the third, _cleanup_windows keeps no bucket of hour 0
HourPasses ==
    /\ HourOf(now) < 3
    /\ now' = now + TicksPerHour
    /\ UNCHANGED <<limits, second_window, minute_window, hour_window, ticks, th>>
    /\ UNCHANGED nonrl_vars

\* time.sleep(sleep_time) at the end of the hours: the clock reaches the time
\* at which the sleep is over
SleepElapses ==
    /\ HourOf(now) >= 3
    /\ now < 3 * TicksPerHour + 2 * TicksPerSecond
    /\ th[Caller].pc = "sleep"
    /\ now < th[Caller].wake
    /\ now' = th[Caller].wake
    /\ UNCHANGED <<limits, second_window, minute_window, hour_window, ticks, th>>
    /\ UNCHANGED nonrl_vars

SingleNext ==
    \/ SecondPasses
    \/ HourPasses
    \/ SleepElapses
    \/ SingleCall
    \/ AcquireStep(Caller)

\* time goes on, and the caller's thread runs
SingleFairness ==
    /\ WF_vars(HourPasses)
    /\ WF_vars(SleepElapses)
    /\ WF_vars(AcquireStep(Caller))

SpecSingle == SingleInit /\ [][SingleNext]_vars /\ SingleFairness

\* the requests granted before time 0
Prefilled == th[CHOOSE i \in Threads : i # Caller].granted

\* C33: the single caller is granted a request only while the requests in
\* the retained minute buckets are below requests_per_minute and those in
\* the retained hour buckets below requests_per_hour; so the retained minute
\* buckets never hold more than requests_per_minute requests, nor the hour
\* buckets more than requests_per_hour, in total or in any one bucket.
C33_MinuteAndHourCaps ==
    [][/\ (th[Caller].pc # "rec_t" /\ th'[Caller].pc = "rec_t") =>
              /\ DictSum(minute_window') < limits.rpm
              /\ DictSum(hour_window') < limits.rph
       /\ DictSum(minute_window') <= limits.rpm
       /\ DictSum(hour_window') <= limits.rph
       /\ \A m \in DOMAIN minute_window' : minute_window'[m] <= limits.rpm
       /\ \A h \in DOMAIN hour_window' : hour_window'[h] <= limits.rph]_vars

\* the call found the minute window full while the second had room, and was
\* granted only after the hours had passed
C33_Witness ==
    /\ Prefilled = limits.rpm
    /\ Prefilled < limits.rps + 1
    /\ th[Caller].pc = "idle"
    /\ th[Caller].granted = 1
    /\ th[Caller].start > 0
    /\ HourOf(th[Caller].start) = 0
    /\ HourOf(now) >= 3
    /\ DictSum(minute_window) = 1

\* C39: an acquire() without timeout on a saturated limiter does not wait
\* forever: while time goes on the call returns, and it returns True after
\* one record in each window.
C39_AcquireWithoutTimeoutReturns ==
    /\ [][(th[Caller].pc = "rec_h_w" /\ th'[Caller].pc = "idle") =>
              /\ th[Caller].recorded = 2
              /\ th'[Caller].granted = th[Caller].granted + 1
              /\ DictSum(hour_window') = DictSum(hour_window) + 1]_vars
    /\ (th[Caller].pc # "idle" /\ th[Caller].timeout = None)
          ~> (th[Caller].pc = "idle" /\ th[Caller].granted = th[Caller].calls)

\* a call without timeout that began with all three windows full has
\* returned with its request recorded
C39_Witness ==
    /\ Prefilled = limits.rph
    /\ Prefilled = limits.rps
    /\ th[Caller].pc = "idle"
    /\ th[Caller].timeout = None
    /\ th[Caller].start = 0
    /\ th[Caller].granted = 1
    /\ DictSum(hour_window) = 1

\* ------------------------------------------------------------------------
\* The ledger used directly (as the portfolio tests do)
\* ------------------------------------------------------------------------
nonpm_vars == <<limits, second_window, minute_window, hour_window, now, ticks, th,
                st, bot, settings, clock, rq>>

\* the dicts symbol -> value over some of the trading pairs
PartialMaps(values) ==
    UNION {[syms -> values] : syms \in SUBSET Symbols}

LedgerPositions ==
    {Position(sym, side, size, price, price, None, None, 0, "") :
        sym \in Symbols, side \in Sides, size \in LedgerSizes,
        price \in LedgerEntryPrices}

\* PortfolioManager.add_position(position)
LedgerAddPosition ==
    /\ \E position \in LedgerPositions :
        IF add_position_raises(pm, position)
        THEN /\ ret' = [Raised("add_position", position.symbol, position.entry_price,
                               "InsufficientFundsException") EXCEPT !.arg = position]
             /\ pm' = pm
        ELSE /\ ret' = [ReturnedBool("add_position", position.symbol,
                                     position.entry_price, TRUE) EXCEPT !.arg = position]
             /\ pm' = pm_add_position(pm, position)
    /\ UNCHANGED nonpm_vars

LedgerClosePosition_unrecorded ==
    /\ Len(pm.trade_history) < MaxTrades
    /\ \E symbol \in Symbols, exit_price \in LedgerPrices :
        /\ ret' = IF symbol \notin DOMAIN pm.positions
                  THEN ReturnedNone("close_position", symbol, exit_price)
                  ELSE Returned("close_position", symbol, exit_price,
                                close_pnl(pm.positions[symbol], exit_price))
        /\ pm' = [pm_close_position_call(pm, symbol, exit_price, "manual", "unknown")
                    EXCEPT !.trade_history = pm.trade_history]
    /\ UNCHANGED nonpm_vars

\* PortfolioManager.close_position(symbol, exit_price)
LedgerClosePosition ==
    /\ Len(pm.trade_history) < MaxTrades
    /\ \E symbol \in Symbols, exit_price \in LedgerPrices :
        /\ ret' = IF symbol \notin DOMAIN pm.positions
                  THEN ReturnedNone("close_position", symbol, exit_price)
                  ELSE Returned("close_position", symbol, exit_price,
                                close_pnl(pm.positions[symbol], exit_price))
        /\ pm' = pm_close_position_call(pm, symbol, exit_price, "manual", "unknown")
    /\ UNCHANGED nonpm_vars

\* PortfolioManager.update_position_prices(prices)
LedgerUpdatePrices ==
    /\ \E price \in LedgerPrices :
        /\ pm' = pm_update_position_prices(pm, [sym \in Symbols |-> price])
        /\ ret' = ReturnedNone("update_position_prices", "", 0)
    /\ UNCHANGED nonpm_vars

RLQuiet ==
    /\ limits = [rps |-> 1, rpm |-> 1, rph |-> 1]
    /\ second_window = EmptyDict
    /\ minute_window = EmptyDict
    /\ hour_window = EmptyDict
    /\ now = 0
    /\ ticks = 0
    /\ th = [i \in Threads |-> IdleFrame]

LedgerInit ==
    /\ PMInit
    /\ ret = NoCall
    /\ RLQuiet
    /\ StrategyQuiet
    /\ BotQuiet
    /\ RequestQuiet

LedgerNext ==
    \/ LedgerAddPosition
    \/ LedgerClosePosition
    \/ LedgerUpdatePrices

SpecLedger == LedgerInit /\ [][LedgerNext]_vars

\* ------------------------------------------------------------------------
\* Ledger claims
\* ------------------------------------------------------------------------
\* C3: add_position for a position whose size x entry_price exceeds
\* available_balance raises InsufficientFundsException and leaves the ledger
\* unchanged.
C3_InsufficientFundsLeavesLedger ==
    [][(ret'.op = "add_position" /\ required_value(ret'.arg) > pm.available_balance)
       => (ret'.raised = "InsufficientFundsException" /\ pm' = pm)]_vars

C3_Witness ==
    /\ ret.op = "add_position"
    /\ ret.raised = "InsufficientFundsException"
    /\ DOMAIN pm.positions # {}
    /\ required_value(ret.arg) > pm.available_balance

\* C4: available_balance >= 0 and reserved_balance >= 0 in every reachable
\* state of the ledger.
C4_BalancesNonNegative ==
    pm.available_balance >= 0 /\ pm.reserved_balance >= 0

C4_Witness ==
    /\ Len(pm.trade_history) > 0
    /\ DOMAIN pm.positions # {}
    /\ pm.reserved_balance > 0
    /\ pm.available_balance # pm.total_balance - pm.reserved_balance

\* C34: whenever the ledger holds no open position, reserved_balance is 0
\* and available_balance equals total_balance, after any sequence of
\* add_position and close_position on long and short positions.
C34_FlatLedgerIsConserved ==
    (Len(pm.trade_history) > 0 /\ DOMAIN pm.positions = {}) =>
        /\ pm.reserved_balance = 0
        /\ pm.available_balance = pm.total_balance

\* C11: close_position for a symbol that has no open position returns None
\* and leaves every field of the ledger as it was; a second close right after
\* a successful one is such a call and adds no trade record, P&L or counter.
C11_CloseWithoutPositionIsNoop ==
    [][(ret'.op = "close_position" /\ ret'.symbol \notin DOMAIN pm.positions)
       => (ret'.isnone /\ pm' = pm)]_vars

C11_Witness ==
    /\ ret.op = "close_position"
    /\ ret.isnone
    /\ Len(pm.trade_history) = 1
    /\ pm.trade_history[1].symbol = ret.symbol
    /\ ret.symbol \notin DOMAIN pm.positions
    /\ pm.total_trades = 1

\* C12: max_drawdown never decreases; after every step it is the larger of
\* its former value and (peak_balance - total_balance) / peak_balance, where
\* peak_balance is the running maximum of total_balance (so peak >= total).
C12_MaxDrawdownIsRunningMax ==
    [][LET current == Frac(pm'.peak_balance - pm'.total_balance, pm'.peak_balance)
       IN /\ FracLeq(pm.max_drawdown, pm'.max_drawdown)
          /\ pm'.peak_balance >= pm'.total_balance
          /\ pm'.peak_balance = Max(pm.peak_balance, pm'.total_balance)
          /\ FracLeq(current, pm'.max_drawdown)
          /\ \/ FracLeq(pm'.max_drawdown, pm.max_drawdown)
             \/ FracLeq(pm'.max_drawdown, current)]_vars

\* a loss followed by a recovery to the peak: the current drawdown is 0 and
\* max_drawdown keeps the earlier one
C12_Witness ==
    /\ Len(pm.trade_history) >= 2
    /\ pm.max_drawdown.n > 0
    /\ pm.total_balance = pm.peak_balance

\* C28: the trade history only grows at its end and agrees with the
\* counters: a close_position that returns a P&L appends exactly one record,
\* every other step leaves the history as it is, no record already there is
\* changed, and total_trades = winning_trades + losing_trades = the number
\* of records, before and after every step.
C28_TradeHistoryAppendOnly ==
    [][/\ pm.total_trades = pm.winning_trades + pm.losing_trades
       /\ pm.total_trades = Len(pm.trade_history)
       /\ pm'.total_trades = pm'.winning_trades + pm'.losing_trades
       /\ pm'.total_trades = Len(pm'.trade_history)
       /\ SubSeq(pm'.trade_history, 1, Len(pm.trade_history)) = pm.trade_history
       /\ Len(pm'.trade_history) =
            IF ret'.op = "close_position" /\ ~ret'.isnone
            THEN Len(pm.trade_history) + 1
            ELSE Len(pm.trade_history)]_vars

\* a winning and a losing close have been recorded, in this order
C28_Witness ==
    /\ Len(pm.trade_history) = 2
    /\ pm.trade_history[1].pnl > 0
    /\ pm.trade_history[2].pnl < 0
    /\ pm.winning_trades = 1
    /\ pm.losing_trades = 1
    /\ ret.op = "close_position"

\* ------------------------------------------------------------------------
\* update_position_prices with a price map that covers some of the symbols
\* ------------------------------------------------------------------------
\* PortfolioManager.update_position_prices(prices)
RepriceUpdatePrices ==
    /\ \E prices \in PartialMaps(LedgerPrices) :
        /\ pm' = pm_update_position_prices(pm, prices)
        /\ ret' = [ReturnedNone("update_position_prices", "", 0) EXCEPT !.arg = prices]
    /\ UNCHANGED nonpm_vars

\* PortfolioManager.close_position(symbol, exit_price)
RepriceClosePosition ==
    /\ Len(pm.trade_history) < MaxCloses
    /\ LedgerClosePosition

RepriceInit == LedgerInit

RepriceNext ==
    \/ LedgerAddPosition
    \/ RepriceClosePosition
    \/ RepriceUpdatePrices

SpecReprice == RepriceInit /\ [][RepriceNext]_vars

\* a position with its current price and unrealized P&L blanked
unpriced(position) ==
    [position EXCEPT !.current_price = 0, !.unrealized_pnl = 0]

\* C27: update_position_prices(prices) changes nothing of the ledger but
\* current_price and unrealized_pnl of the open positions whose symbol is a
\* key of prices: the balances, the counters, the trade history and the set
\* of open symbols stay, a position whose symbol is not a key is untouched,
\* and a key without an open position opens none.
C27_UpdatePricesFrame ==
    [][ret'.op = "update_position_prices" =>
          /\ [pm' EXCEPT !.positions = EmptyDict] = [pm EXCEPT !.positions = EmptyDict]
          /\ DOMAIN pm'.positions = DOMAIN pm.positions
          /\ \A sym \in DOMAIN pm.positions :
                /\ unpriced(pm'.positions[sym]) = unpriced(pm.positions[sym])
                /\ sym \notin DOMAIN ret'.arg => pm'.positions[sym] = pm.positions[sym]
                /\ sym \in DOMAIN ret'.arg =>
                      pm'.positions[sym].current_price = ret'.arg[sym]]_vars

\* a map with a price for one open position and for a symbol that is not
\* held, while the other open position keeps its price
C27_Witness ==
    /\ ret.op = "update_position_prices"
    /\ \E held \in DOMAIN pm.positions :
          /\ held \in DOMAIN ret.arg
          /\ pm.positions[held].current_price = ret.arg[held]
          /\ pm.positions[held].unrealized_pnl # 0
          /\ \E other \in Symbols \ {held} :
                \/ /\ other \in DOMAIN pm.positions
                   /\ other \notin DOMAIN ret.arg
                   /\ pm.positions[other].current_price = pm.positions[other].entry_price
                \/ /\ other \notin DOMAIN pm.positions
                   /\ other \in DOMAIN ret.arg

\* ------------------------------------------------------------------------
\* PositionSizer.calculate_position_size called on its own: the call's
\* arguments are drawn in the initial state, the step applies the function
\* ------------------------------------------------------------------------
SizerBalances == {0, 1000, 10000, 100000, 1000000}
SizerEntryPrices == {200, 2000, 50000}
SizerStopPercents == {97, 98, 102, 103}

SizerInputs ==
    {[account_balance |-> balance, entry_price |-> entry,
      stop_loss_price |-> (entry * pct) \div 100, side |-> side] :
        balance \in SizerBalances, entry \in SizerEntryPrices,
        pct \in SizerStopPercents, side \in Sides}

SizerInit ==
    /\ pm = NewPortfolio(0)
    /\ ret \in {[NoCall EXCEPT !.arg = input] : input \in SizerInputs}
    /\ RLQuiet
    /\ StrategyQuiet
    /\ BotQuiet
    /\ RequestQuiet

SizerCall ==
    /\ ret.op = "none"
    /\ LET input == ret.arg
       IN ret' =
            IF position_size_raises(input.account_balance, input.entry_price,
                                    input.stop_loss_price, input.side)
            THEN [Raised("calculate_position_size", "", input.entry_price,
                         "RiskManagementException") EXCEPT !.arg = input]
            ELSE [Returned("calculate_position_size", "", input.entry_price, 0)
                    EXCEPT !.arg = input,
                           !.val = calculate_position_size(input.account_balance,
                                       input.entry_price, input.stop_loss_price,
                                       input.side)]
    /\ UNCHANGED <<pm, st, bot, clock, settings, rl_vars, rq>>

SizerNext == SizerCall

SpecSizer == SizerInit /\ [][SizerNext]_vars

\* a call of calculate_position_size that returned a PositionSize
Sized == ret.op = "calculate_position_size" /\ ret.raised = ""

\* C16: for every valid input (balance > 0, prices > 0, stop on the correct
\* side) the returned quote_size is base_size * entry_price (to the whole
\* unit of size) and is at most account_balance.
C16_QuoteWithinBalance ==
    Sized =>
        /\ ret.val.quote_size <= ret.arg.account_balance
        /\ ret.val.base_size * ret.arg.entry_price <= ret.val.quote_size
        /\ ret.val.quote_size - ret.val.base_size * ret.arg.entry_price
                < ret.arg.entry_price

\* the size at the clamp would cost more than the balance: the size is
\* derived from the balance and the quote is the whole balance
C16_Witness ==
    /\ Sized
    /\ min_position_size * ret.arg.entry_price > ret.arg.account_balance
    /\ ret.val.quote_size = ret.arg.account_balance
    /\ ret.val.base_size > 0

\* C17: for every valid input the returned base_size lies within
\* [min_position_size, max_position_size].
C17_BaseSizeWithinLimits ==
    Sized =>
        /\ ret.val.base_size >= min_position_size
        /\ ret.val.base_size <= max_position_size

\* C37: whenever calculate_position_size succeeds, the size it returns
\* passes the minimum-size, maximum-size and sufficient-balance checks of
\* validate_trade for the same balance and entry price (a risk manager with
\* no open position and no loss fails no other check).
C37_SizePassesValidateTrade ==
    Sized => validate_trade(NewStrategy.risk_manager, ret.arg.account_balance,
                            ret.arg.entry_price, ret.val.base_size, ret.arg.side)

\* ------------------------------------------------------------------------
\* The strategy, the ledger and the bot's helpers called directly, as
\* test_trading_strategies.py and tests/test_integration.py call them
\* ------------------------------------------------------------------------
MaxDays == 14
StrategySymbol == "BTC-USD"
StrategyBalances == {10000}
StrategyPrices == {196, 205, 210, 215}
StrategyEntryPrices == {200}
StrategyStrengths == {60, 70}
StrategyConfidences == {62, 65, 75}
StrategyVolumes == {500000, 2000000}
Trends == {"sideways", "bearish", "bullish"}
ClockSteps == {max_hold_days * HoursPerDay}

\* the signals of the calls: every type at every confidence, and a strong buy
\* at every strength and entry price (without an entry price sizing raises)
StrategySignals ==
    {TradingSignal(StrategySymbol, type, min_signal_strength, confidence, entry) :
        type \in SignalTypes, confidence \in StrategyConfidences,
        entry \in StrategyEntryPrices}
    \cup {TradingSignal(StrategySymbol, "STRONG_BUY", strength, medium_signal_confidence,
                        entry) :
            strength \in StrategyStrengths, entry \in StrategyEntryPrices \cup {0}}

\* the calls of analyze_signal: every signal on a liquid market, the strong
\* buys on a thin one as well
AnalyzeCalls ==
    {[signal |-> signal, volume |-> volume] :
        signal \in StrategySignals, volume \in StrategyVolumes}
    \ {c \in [signal : StrategySignals, volume : StrategyVolumes] :
            c.volume < min_volume_threshold /\ c.signal.signal_type # "STRONG_BUY"}

\* the market data a caller passes to analyze_signal
AnalyzeData(volume) ==
    [k \in {"volume", "account_balance"} |->
        IF k = "volume" THEN volume ELSE pm.total_balance]

\* the market data a caller passes to should_close_position
CloseData(trend) == [k \in {"trend"} |-> trend]

other_vars == <<limits, second_window, minute_window, hour_window, now, ticks, th,
                settings, rq>>

\* strategy.analyze_signal(signal, market_data)
StrategyAnalyze ==
    /\ \E call \in AnalyzeCalls :
        LET signal == call.signal
            result == analyze_signal(st, signal, AnalyzeData(call.volume))
        IN ret' = IF result.isnone
                  THEN ReturnedNone("analyze_signal", signal.symbol, 0)
                  ELSE [Returned("analyze_signal", signal.symbol, signal.entry_price, 0)
                            EXCEPT !.arg = result.order,
                                   !.signal = signal.signal_type]
    /\ UNCHANGED <<pm, st, bot, clock, other_vars>>

\* the returned order, tagged with the strategy's key and with the signal it
\* came from as its client id, goes through bot._execute_order
StrategyExecuteOrder ==
    /\ ret.op = "analyze_signal"
    /\ ~ret.isnone
    /\ LET order == [ret.arg EXCEPT !.metadata.strategy = StrategyKey,
                                    !.client_order_id = ret.signal]
       IN IF fill_succeeds(World, order)
          THEN LET w == simulate_order_execution(World, order, clock)
               IN /\ pm' = w.pm
                  /\ st' = w.st
                  /\ bot' = w.bot
                  /\ ret' = [ReturnedBool("execute_order", order.symbol, order.price, TRUE)
                                EXCEPT !.signal = ret.signal]
          ELSE /\ UNCHANGED <<pm, st, bot>>
               /\ ret' = [ReturnedBool("execute_order", order.symbol, order.price, FALSE)
                             EXCEPT !.signal = ret.signal]
    /\ UNCHANGED <<clock, other_vars>>

\* bot._update_market_data with the ticker the client returns
StrategyUpdateMarketData ==
    /\ \E price \in StrategyPrices :
        LET w == update_market_data(World,
                    [sym \in {StrategySymbol} |->
                        [price |-> price, volume |-> 2 * min_volume_threshold]])
        IN bot' = w.bot
    /\ ret' = ReturnedNone("update_market_data", "", 0)
    /\ UNCHANGED <<pm, st, clock, other_vars>>

\* bot._update_position_prices
StrategyUpdatePositionPrices ==
    /\ LET w == update_position_prices(World)
       IN /\ pm' = w.pm
          /\ st' = w.st
    /\ ret' = ReturnedNone("update_position_prices", "", 0)
    /\ UNCHANGED <<bot, clock, other_vars>>

\* strategy.should_close_position(position, market_data)
StrategyShouldClose ==
    /\ StrategySymbol \in DOMAIN st.positions
    /\ \E trend \in Trends :
        LET position == st.positions[StrategySymbol]
        IN ret' = [ReturnedBool("should_close_position", StrategySymbol,
                                position.current_price,
                                should_close_position(position, CloseData(trend), clock))
                      EXCEPT !.arg = close_reason(position, CloseData(trend), clock)]
    /\ UNCHANGED <<pm, st, bot, clock, other_vars>>

\* bot._close_position(symbol, reason, "swing_trading")
StrategyClosePosition ==
    /\ Len(pm.trade_history) < MaxCloses
    /\ LET price == cached_price(bot, StrategySymbol)
           w == close_position(World, StrategySymbol, "test", StrategyKey)
       IN /\ pm' = w.pm
          /\ st' = w.st
          /\ ret' = IF price = 0 \/ StrategySymbol \notin DOMAIN pm.positions
                    THEN ReturnedNone("close_position", StrategySymbol, price)
                    ELSE [Returned("close_position", StrategySymbol, price,
                                   close_pnl(pm.positions[StrategySymbol], price))
                             EXCEPT !.signal = pm.positions[StrategySymbol].order_id]
    /\ UNCHANGED <<bot, clock, other_vars>>

\* strategy.activate() / strategy.deactivate()
StrategyActivate ==
    /\ ~st.is_active
    /\ st' = [st EXCEPT !.is_active = TRUE]
    /\ ret' = ReturnedNone("activate", "", 0)
    /\ UNCHANGED <<pm, bot, clock, other_vars>>

StrategyDeactivate ==
    /\ st.is_active
    /\ st' = [st EXCEPT !.is_active = FALSE]
    /\ ret' = ReturnedNone("deactivate", "", 0)
    /\ UNCHANGED <<pm, bot, clock, other_vars>>

\* datetime.now() moves on
StrategyClock ==
    /\ \E d \in ClockSteps :
        /\ clock + d <= MaxDays * HoursPerDay
        /\ clock' = clock + d
    /\ UNCHANGED <<pm, st, bot, ret, other_vars>>

StrategyInit ==
    /\ pm \in {NewPortfolio(b) : b \in StrategyBalances}
    /\ st = NewStrategy
    /\ bot = NewBot
    /\ clock = 0
    /\ settings = [max_positions |-> 5]
    /\ ret = NoCall
    /\ RLQuiet
    /\ RequestQuiet

StrategyNext ==
    \/ StrategyAnalyze
    \/ StrategyExecuteOrder
    \/ StrategyUpdateMarketData
    \/ StrategyUpdatePositionPrices
    \/ StrategyShouldClose
    \/ StrategyClosePosition
    \/ StrategyActivate
    \/ StrategyDeactivate
    \/ StrategyClock

SpecStrategy == StrategyInit /\ [][StrategyNext]_vars

\* ------------------------------------------------------------------------
\* The daily reset of the control loop next to the strategy's entries and
\* closes: a day's loss, the next date, check_daily_reset, a new signal
\* ------------------------------------------------------------------------
\* datetime.now() is a day later: one new date for each day with a close
BreakerDayPasses ==
    /\ DateOf(clock) < MaxCloses
    /\ clock' = clock + HoursPerDay
    /\ UNCHANGED <<pm, st, bot, ret, other_vars>>

\* step 2 of _trading_cycle: self.portfolio_manager.check_daily_reset()
BreakerCheckDailyReset ==
    /\ pm' = check_daily_reset(pm, clock)
    /\ ret' = ReturnedBool("check_daily_reset", "", 0,
                           DateOf(clock) > pm.last_daily_reset)
    /\ UNCHANGED <<st, bot, clock, other_vars>>

BreakerInit == StrategyInit

BreakerNext ==
    \/ StrategyUpdateMarketData
    \/ StrategyAnalyze
    \/ StrategyExecuteOrder
    \/ StrategyClosePosition
    \/ BreakerDayPasses
    \/ BreakerCheckDailyReset

SpecBreaker == BreakerInit /\ [][BreakerNext]_vars

\* C38: after the daily reset that the control loop performs on a new date,
\* the daily P&L of the strategy's risk manager is zero and an entry that
\* passes every other check is admitted again.
C38_DailyResetReleasesBreaker ==
    (ret.op = "check_daily_reset" /\ ret.flag) =>
        /\ st.risk_manager.daily_pnl = 0
        /\ \A call \in AnalyzeCalls :
              analyze_signal(st, call.signal, AnalyzeData(call.volume)).isnone
                = analyze_signal([st EXCEPT !.risk_manager.daily_pnl = 0], call.signal,
                                 AnalyzeData(call.volume)).isnone

\* ------------------------------------------------------------------------
\* The strategy's positions map used directly: add_position and
\* remove_position in any order, for any symbol
\* ------------------------------------------------------------------------
\* strategy.add_position(position)
PositionsAdd ==
    /\ st.risk_manager.open_positions < MaxTrades
    /\ \E symbol \in Symbols, side \in Sides, size \in LedgerSizes,
          entry_price \in LedgerEntryPrices :
         LET position == Position(symbol, side, size, entry_price, entry_price,
                                  None, None, 0, "")
         IN /\ st' = st_add_position(st, position)
            /\ ret' = ReturnedNone("add_position", symbol, entry_price)
    /\ UNCHANGED <<pm, bot, clock, other_vars>>

\* strategy.remove_position(symbol, exit_price): None for a symbol that is
\* not held
PositionsRemove ==
    /\ st.total_trades < MaxCloses
    /\ \E symbol \in Symbols, exit_price \in LedgerPrices :
         IF symbol \notin DOMAIN st.positions
         THEN /\ st' = st
              /\ ret' = ReturnedNone("remove_position", symbol, exit_price)
         ELSE /\ st' = st_remove_position(st, symbol, exit_price)
              /\ ret' = Returned("remove_position", symbol, exit_price,
                                 close_pnl(st.positions[symbol], exit_price))
    /\ UNCHANGED <<pm, bot, clock, other_vars>>

PositionsInit == LedgerQuiet /\ StrategyQuiet /\ BotQuiet /\ RLQuiet /\ RequestQuiet

PositionsNext ==
    \/ PositionsAdd
    \/ PositionsRemove

SpecPositions == PositionsInit /\ [][PositionsNext]_vars

\* ------------------------------------------------------------------------
\* The trading loop (TradingBot._run_main_loop / _trading_cycle), one action
\* per awaited step of the cycle
\* ------------------------------------------------------------------------
MaxCycles == 2
MaxPositionsLimit == 2
BotBalances == {1000000}
BotPrices == {200, 400}
SleepSteps == {1, HoursPerDay}

\* what the exchange client returns for a symbol, when it returns a ticker
BotTickers == {[price |-> price, volume |-> 2 * min_volume_threshold] : price \in BotPrices}

\* what the signal bot returns for a symbol, when it returns an analysis
BotAnalyses ==
    {[signal_type |-> "STRONG_BUY", strength |-> 85, confidence |-> 80],
     [signal_type |-> "SELL", strength |-> 85, confidence |-> 80],
     [signal_type |-> "BUY", strength |-> 85, confidence |-> 70]}

BotStep(w, phase) ==
    /\ pm' = w.pm
    /\ st' = w.st
    /\ bot' = [w.bot EXCEPT !.phase = phase]

\* step 1 of the cycle
BotUpdateMarketData ==
    /\ bot.phase = "update_market_data"
    /\ \E tickers \in PartialMaps(BotTickers) :
        BotStep(update_market_data(World, tickers), "check_daily_reset")
    /\ UNCHANGED <<clock, ret, other_vars>>

\* step 2
BotCheckDailyReset ==
    /\ bot.phase = "check_daily_reset"
    /\ BotStep([World EXCEPT !.pm = check_daily_reset(@, clock)], "update_position_prices")
    /\ UNCHANGED <<clock, ret, other_vars>>

\* step 3
BotUpdatePositionPrices ==
    /\ bot.phase = "update_position_prices"
    /\ BotStep(update_position_prices(World), "check_position_exits")
    /\ UNCHANGED <<clock, ret, other_vars>>

\* step 4
BotCheckPositionExits ==
    /\ bot.phase = "check_position_exits"
    /\ BotStep(check_position_exits(World, clock), "process_new_signals")
    /\ UNCHANGED <<clock, ret, other_vars>>

\* step 5
BotProcessNewSignals ==
    /\ bot.phase = "process_new_signals"
    /\ \E signals \in PartialMaps(BotAnalyses) :
        BotStep(process_new_signals(World, signals), "execute_pending_orders")
    /\ UNCHANGED <<clock, ret, other_vars>>

\* step 6 (and _save_state, which keeps no state of its own)
BotExecutePendingOrders ==
    /\ bot.phase = "execute_pending_orders"
    /\ BotStep([execute_pending_orders(World, clock) EXCEPT !.bot.cycles = @ + 1],
               "sleep")
    /\ UNCHANGED <<clock, ret, other_vars>>

\* asyncio.sleep(update_interval) between two cycles
BotSleep ==
    /\ bot.phase = "sleep"
    /\ bot.cycles < MaxCycles
    /\ \E d \in SleepSteps : clock' = clock + d
    /\ bot' = [bot EXCEPT !.phase = "update_market_data"]
    /\ UNCHANGED <<pm, st, ret, other_vars>>

\* force_close_all_positions(), called while the loop sleeps
BotForceCloseAll ==
    /\ bot.phase = "sleep"
    /\ DOMAIN pm.positions # {}
    /\ Len(pm.trade_history) < MaxTrades
    /\ BotStep(force_close_all_positions(World), "sleep")
    /\ UNCHANGED <<clock, ret, other_vars>>

BotInit ==
    /\ pm \in {NewPortfolio(b) : b \in BotBalances}
    /\ st = NewStrategy
    /\ bot = NewBot
    /\ clock = 0
    /\ settings \in {[max_positions |-> n] : n \in 1..MaxPositionsLimit}
    /\ ret = NoCall
    /\ RLQuiet
    /\ RequestQuiet

BotNext ==
    \/ BotUpdateMarketData
    \/ BotCheckDailyReset
    \/ BotUpdatePositionPrices
    \/ BotCheckPositionExits
    \/ BotProcessNewSignals
    \/ BotExecutePendingOrders
    \/ BotSleep
    \/ BotForceCloseAll

SpecBot == BotInit /\ [][BotNext]_vars

\* ------------------------------------------------------------------------
\* TradingBot.start: the control loop with its exception handlers, stop()
\* and the cleanup of the finally block
\* ------------------------------------------------------------------------
\* the fields of TradingBot.__init__ that the loop reads and writes
LoopBot ==
    [NewBot EXCEPT !.phase = "created"] @@ [is_running |-> FALSE, errors |-> 0]

\* what get_market_trades gives for a symbol: a ticker, or an exception of
\* _make_request
FetchFailures == {"AuthenticationException", "CoinbaseAPIException"}
LoopTickers == {t \in BotTickers : t.price = 400}
LoopFetches ==
    [Symbols -> {[raised |-> "", value |-> t] : t \in LoopTickers}
                \cup {[raised |-> f, value |-> [price |-> 0, volume |-> 0]] :
                         f \in FetchFailures}]

\* what the signal bot's analysis of a symbol gives: an analysis, or an
\* exception inside analyze_single_symbol / _convert_to_trading_signal
AnalysisFailures == {"InsufficientDataException"}
LoopAnalyses == {a \in BotAnalyses : a.signal_type = "STRONG_BUY"}
LoopSignals ==
    [Symbols -> {[raised |-> "", value |-> a] : a \in LoopAnalyses}
                \cup {[raised |-> f, value |-> [signal_type |-> "HOLD", strength |-> 0,
                                                confidence |-> 0]] :
                         f \in AnalysisFailures}]

\* the entries of a per-symbol result that are values, and the exception
\* that was logged for the others
succeeded_all_or_nothing(results) ==
    [sym \in {x \in DOMAIN results : \A y \in DOMAIN results : results[y].raised = ""} |->
        results[sym].value]

\* the try/except inside the for loop over the trading pairs
succeeded(results) ==
    [sym \in {x \in DOMAIN results : results[x].raised = ""} |-> results[sym].value]

failed(results) == {sym \in DOMAIN results : results[sym].raised # ""}

logged(results) ==
    IF \E sym \in failed(results) : results[sym].raised = "AuthenticationException"
    THEN "AuthenticationException"
    ELSE IF failed(results) # {}
    THEN results[CHOOSE sym \in failed(results) : TRUE].raised
    ELSE ""

\* the outcome of a step of the loop: what it logged as an error, if anything
LoopRet(op, exc, arg) == [Raised(op, "", 0, exc) EXCEPT !.arg = arg]

\* start(), lines 100-112, with the exchange reachable
LoopStart ==
    /\ bot.phase = "created"
    /\ ~bot.is_running
    /\ bot' = [bot EXCEPT !.is_running = TRUE, !.phase = "while"]
    /\ st' = [st EXCEPT !.is_active = TRUE]
    /\ ret' = LoopRet("start", "", << >>)
    /\ UNCHANGED <<pm, clock, other_vars>>

\* stop(), lines 162-165: runs between two awaits of the loop
LoopStop ==
    /\ bot.is_running
    /\ bot' = [bot EXCEPT !.is_running = FALSE]
    /\ ret' = LoopRet("stop", "", << >>)
    /\ UNCHANGED <<pm, st, clock, other_vars>>

\* while self.is_running, line 116: a new cycle begins
LoopBeginCycle ==
    /\ bot.phase = "while"
    /\ bot.is_running
    /\ bot.cycles < MaxCycles
    /\ bot' = [bot EXCEPT !.phase = "update_market_data"]
    /\ ret' = LoopRet("while", "", << >>)
    /\ UNCHANGED <<pm, st, clock, other_vars>>

cleanup_force_close(w) ==
    [force_close_all_positions(w) EXCEPT !.st.is_active = FALSE,
                                         !.bot.is_running = FALSE]

\* the finally block, lines 158-160, and _cleanup, lines 518-527
cleanup(w) ==
    [w EXCEPT !.st.is_active = FALSE, !.bot.is_running = FALSE]

\* the loop condition is false: the loop is left through the finally block
LoopCleanup ==
    /\ bot.phase = "while"
    /\ ~bot.is_running
    /\ BotStep(cleanup(World), "stopped")
    /\ ret' = LoopRet("cleanup", "", << >>)
    /\ UNCHANGED <<clock, other_vars>>

\* step 1: _update_market_data logs the exception of a symbol and goes on
LoopUpdateMarketData ==
    /\ bot.phase = "update_market_data"
    /\ \E fetches \in LoopFetches :
        /\ BotStep(update_market_data(World, succeeded(fetches)),
                   "check_daily_reset")
        /\ ret' = LoopRet("update_market_data", logged(fetches), fetches)
    /\ UNCHANGED <<clock, other_vars>>

\* steps 2 to 4 have no handler of their own: an exception that one of them
\* lets through ends the cycle in the handler of lines 137-149
LoopCycleError ==
    /\ bot.phase \in {"check_daily_reset", "update_position_prices",
                      "check_position_exits"}
    /\ bot' = [bot EXCEPT !.errors = @ + 1, !.cycles = @ + 1, !.phase = "sleep"]
    /\ ret' = LoopRet("trading_cycle", "Exception", << >>)
    /\ UNCHANGED <<pm, st, clock, other_vars>>

LoopCheckDailyReset ==
    /\ bot.phase = "check_daily_reset"
    /\ BotStep([World EXCEPT !.pm = check_daily_reset(@, clock)], "update_position_prices")
    /\ ret' = LoopRet("check_daily_reset", "", << >>)
    /\ UNCHANGED <<clock, other_vars>>

LoopUpdatePositionPrices ==
    /\ bot.phase = "update_position_prices"
    /\ BotStep(update_position_prices(World), "check_position_exits")
    /\ ret' = LoopRet("update_position_prices", "", << >>)
    /\ UNCHANGED <<clock, other_vars>>

LoopCheckPositionExits ==
    /\ bot.phase = "check_position_exits"
    /\ BotStep(check_position_exits(World, clock), "process_new_signals")
    /\ ret' = LoopRet("check_position_exits", "", << >>)
    /\ UNCHANGED <<clock, other_vars>>

\* step 5: _process_new_signals logs the exception of a symbol and goes on
LoopProcessNewSignals ==
    /\ bot.phase = "process_new_signals"
    /\ \E signals \in LoopSignals :
        /\ BotStep(process_new_signals(World, succeeded(signals)),
                   "execute_pending_orders")
        /\ ret' = LoopRet("process_new_signals", logged(signals),
                          signals)
    /\ UNCHANGED <<clock, other_vars>>

\* step 6 and _save_state
LoopExecutePendingOrders ==
    /\ bot.phase = "execute_pending_orders"
    /\ BotStep([execute_pending_orders(World, clock) EXCEPT !.bot.cycles = @ + 1],
               "sleep")
    /\ ret' = LoopRet("execute_pending_orders", "", << >>)
    /\ UNCHANGED <<clock, other_vars>>

\* asyncio.sleep(update_interval), line 152
LoopSleep ==
    /\ bot.phase = "sleep"
    /\ clock' = clock + 1
    /\ bot' = [bot EXCEPT !.phase = "while"]
    /\ ret' = LoopRet("sleep", "", << >>)
    /\ UNCHANGED <<pm, st, other_vars>>

LoopInit ==
    /\ pm \in {NewPortfolio(b) : b \in BotBalances}
    /\ bot = LoopBot
    /\ ret = NoCall
    /\ StrategyQuiet
    /\ RLQuiet
    /\ RequestQuiet

LoopNext ==
    \/ LoopStart
    \/ LoopStop
    \/ LoopBeginCycle
    \/ LoopCleanup
    \/ LoopUpdateMarketData
    \/ LoopCycleError
    \/ LoopCheckDailyReset
    \/ LoopUpdatePositionPrices
    \/ LoopCheckPositionExits
    \/ LoopProcessNewSignals
    \/ LoopExecutePendingOrders
    \/ LoopSleep

SpecLoop == LoopInit /\ [][LoopNext]_vars

\* a step of the loop that logged an exception
LoopCaught == bot' # bot /\ ret'.raised # ""

\* C21: every exception raised during a trading cycle is counted in the
\* bot's error counter, and the loop goes on to the sleep and the next tick
\* without being stopped by it.
C21_EveryExceptionIsCounted ==
    [][LoopCaught =>
          /\ bot'.errors = bot.errors + 1
          /\ bot'.is_running = bot.is_running
          /\ bot'.phase # "stopped"]_vars

\* the orders that a step appended to the pending orders
appended_orders ==
    {bot'.pending_orders[k] :
        k \in (DOMAIN bot'.pending_orders) \ (DOMAIN bot.pending_orders)}

\* C22: once stop() has cleared is_running no new trading cycle begins and
\* is_running stays false, the cycle in flight still runs its steps, and the
\* cleanup on leaving the loop closes no position: the ledger, its trade
\* history and the pending orders are what they were; after the cleanup
\* nothing changes any more.
C22_StopLeavesPositionsOpen ==
    [][/\ (~bot.is_running /\ bot.phase # "created") =>
              /\ ~bot'.is_running
              /\ bot'.phase = "update_market_data" => bot.phase = "update_market_data"
       /\ (bot.phase = "while" /\ bot'.phase = "stopped") =>
              /\ pm' = pm
              /\ st'.positions = st.positions
              /\ bot'.pending_orders = bot.pending_orders
       /\ bot.phase = "stopped" => UNCHANGED <<pm, st, bot>>]_vars

\* the loop was left after stop() with a position still open that was
\* opened by a cycle in which stop() arrived
C22_Witness ==
    /\ bot.phase = "stopped"
    /\ ~bot.is_running
    /\ ~st.is_active
    /\ bot.cycles = 1
    /\ DOMAIN pm.positions # {}

\* C23: a call of the exchange that fails with an authentication error ends
\* the session: the step in which the failure arrives leaves is_running
\* false, so that the loop begins no further trading cycle.
C23_AuthenticationFailureEndsSession ==
    [][(bot' # bot /\ ret'.raised = "AuthenticationException") => ~bot'.is_running]_vars

\* C26: an analysis that fails for one symbol is contained: the step goes on
\* to the execution of the orders with the loop still running, each other
\* symbol of the cycle gets the order that its own signal gives, and nothing
\* of the ledger, of the strategy's positions or of the pending orders
\* changes for the failed symbol.
C26_SymbolFailureIsContained ==
    [][(bot.phase = "process_new_signals" /\ ret'.op = "process_new_signals"
        /\ failed(ret'.arg) # {}) =>
          /\ bot'.phase = "execute_pending_orders"
          /\ bot'.is_running = bot.is_running
          /\ pm' = pm
          /\ st'.positions = st.positions
          /\ \A o \in appended_orders : o.symbol \notin failed(ret'.arg)
          /\ \A sym \in (DOMAIN ret'.arg) \ failed(ret'.arg) :
                LET alone == process_new_signals(World, [x \in {sym} |-> ret'.arg[x].value])
                IN alone.bot.pending_orders # bot.pending_orders =>
                      \E o \in appended_orders : o.symbol = sym]_vars

\* one symbol failed and the other one got its order in the same step
C26_Witness ==
    /\ ret.op = "process_new_signals"
    /\ bot.phase = "execute_pending_orders"
    /\ failed(ret.arg) # {}
    /\ \E sym \in (DOMAIN ret.arg) \ failed(ret.arg) :
          /\ Len(bot.pending_orders) > 0
          /\ bot.pending_orders[Len(bot.pending_orders)].symbol = sym

\* ------------------------------------------------------------------------
\* Trading loop claims
\* ------------------------------------------------------------------------
\* C36: RiskManager.open_positions is the number of entries of the
\* strategy's positions map after any sequence of add_position and
\* remove_position, an add for a symbol already held and a remove for a
\* symbol not held included.
C36_OpenPositionsCountsTheMap ==
    st.risk_manager.open_positions = Cardinality(DOMAIN st.positions)

\* C35: after every operation of the bot (a simulated fill, successful or
\* failed, a close triggered by the strategy, force_close_all_positions) the
\* symbols with an open position in the ledger are the symbols of the
\* strategies' position maps.
C35_LedgerAndStrategyHoldSameSymbols ==
    DOMAIN pm.positions = DOMAIN st.positions

\* C5: at most one position per symbol is open at a time: no step of the
\* trading cycles fills an order onto a symbol that already has an open
\* position, in the ledger or in the strategy.
C5_FillOnlyOntoFlatSymbol ==
    [][/\ \A sym \in DOMAIN pm'.positions :
            sym \in DOMAIN pm.positions =>
                pm'.positions[sym].order_id = pm.positions[sym].order_id
       /\ \A sym \in DOMAIN st'.positions :
            sym \in DOMAIN st.positions =>
                st'.positions[sym].order_id = st.positions[sym].order_id]_vars

\* C6: the number of positions open for the strategy (every position of the
\* loop comes from an order of the strategy) never exceeds max_positions.
C6_OpenPositionsWithinMax ==
    Cardinality(DOMAIN st.positions \cup DOMAIN pm.positions) <= settings.max_positions

\* C14: every order put into pending_orders is handed to the execution step
\* once and then removed, whether its fill succeeded or failed: when a cycle
\* has run _execute_pending_orders, no order is pending.
C14_NoOrderPendingAfterExecution ==
    bot.phase = "sleep" => bot.pending_orders = << >>

\* ------------------------------------------------------------------------
\* Strategy claims
\* ------------------------------------------------------------------------
\* C7: analyze_signal emits an order only when the strategy is active, the
\* strength is at least the global threshold and 0.7, the confidence at least
\* 0.6 and 0.65, no position is open for the symbol, the volume reaches the
\* floor, the signal is not Hold, it is StrongBuy/StrongSell or Buy/Sell with
\* confidence >= 0.75, and validate_trade accepts the sized trade.
C7_OrderOnlyWhenGated ==
    \A call \in AnalyzeCalls :
        LET signal == call.signal
            volume == call.volume
            market_data == AnalyzeData(volume)
            result == analyze_signal(st, signal, market_data)
        IN ~result.isnone =>
            /\ st.is_active
            /\ signal.strength >= signal_strength_threshold
            /\ signal.strength >= min_signal_strength
            /\ signal.confidence >= base_min_confidence
            /\ signal.confidence >= min_confidence
            /\ signal.symbol \notin DOMAIN st.positions
            /\ volume >= min_volume_threshold
            /\ signal.signal_type # "HOLD"
            /\ \/ signal.signal_type \in {"STRONG_BUY", "STRONG_SELL"}
               \/ /\ signal.signal_type \in {"BUY", "SELL"}
                  /\ signal.confidence >= medium_signal_confidence
            /\ validate_trade(st.risk_manager, market_data["account_balance"],
                              signal.entry_price, result.order.size,
                              result.order.side)

C7_Witness ==
    /\ ret.op = "analyze_signal"
    /\ ~ret.isnone
    /\ ret.signal = "SELL"
    /\ pm.total_trades > 0

\* C15: while the strategy's daily P&L, accumulated by remove_position, is
\* below -max_daily_loss, validate_trade rejects every entry and
\* analyze_signal returns no order.
C15_DailyLossBreaker ==
    st.risk_manager.daily_pnl < -max_daily_loss =>
        /\ \A balance \in StrategyBalances, entry \in StrategyEntryPrices, side \in Sides,
              size \in {min_position_size, max_position_size} :
                ~validate_trade(st.risk_manager, balance, entry, size, side)
        /\ \A call \in AnalyzeCalls :
              analyze_signal(st, call.signal, AnalyzeData(call.volume)).isnone

\* the breaker alone holds back an order: the strategy is active and flat, the
\* call returned None, and with the day's loss undone some call yields an order
C15_Witness ==
    /\ st.risk_manager.daily_pnl < -max_daily_loss
    /\ ret.op = "analyze_signal"
    /\ ret.isnone
    /\ st.is_active
    /\ DOMAIN st.positions = {}
    /\ \E call \in AnalyzeCalls :
          ~analyze_signal([st EXCEPT !.risk_manager.daily_pnl = 0], call.signal,
                          AnalyzeData(call.volume)).isnone

\* C18: every order that analyze_signal emits carries stop_loss = entry price
\* moved by stop_loss_percentage (3%) against the position, and take_profit =
\* entry price moved by 2.5 times the distance to that stop in its favour.
C18_OrderCarriesSwingStop ==
    \A call \in AnalyzeCalls :
        LET signal == call.signal
            entry == signal.entry_price
            result == analyze_signal(st, signal, AnalyzeData(call.volume))
            stop == IF signal_side(signal) = "buy"
                    THEN (entry * (100 - stop_loss_percentage)) \div 100
                    ELSE (entry * (100 + stop_loss_percentage)) \div 100
            target == IF signal_side(signal) = "buy"
                      THEN entry + (take_profit_ratio_tenths * (entry - stop)) \div 10
                      ELSE entry - (take_profit_ratio_tenths * (stop - entry)) \div 10
        IN ~result.isnone =>
            /\ result.order.stop_loss = stop
            /\ result.order.take_profit = target

\* C19: the trailing stop only tightens: while a position is held, no step
\* lowers the peak_price recorded for a long or raises the valley_price
\* recorded for a short.
C19_TrailingExtremeOnlyTightens ==
    [][\A sym \in DOMAIN st.positions \cap DOMAIN st'.positions :
        LET before == st.positions[sym]
            after == st'.positions[sym]
        IN (before.order_id = after.order_id /\ before.timestamp = after.timestamp) =>
            /\ (before.side = "buy" /\ before.peak_price # None)
                    => (after.peak_price # None /\ after.peak_price >= before.peak_price)
            /\ (before.side = "sell" /\ before.valley_price # None)
                    => (after.valley_price # None
                        /\ after.valley_price <= before.valley_price)]_vars

\* a long whose price has come back from its peak: the peak is kept
C19_Witness ==
    \E sym \in DOMAIN st.positions :
        /\ st.positions[sym].side = "buy"
        /\ st.positions[sym].peak_price # None
        /\ st.positions[sym].current_price < st.positions[sym].peak_price
        /\ ret.op = "update_position_prices"

\* C20: should_close_position changes neither the position nor any strategy
\* or ledger state, and its result depends on the position and the market
\* snapshot alone: called again with the same position and the same snapshot
\* it returns the same result.
C20_ShouldCloseIsPure ==
    [][/\ ret'.op = "should_close_position" => (pm' = pm /\ st' = st)
       /\ \A sym \in DOMAIN st.positions \cap DOMAIN st'.positions, trend \in Trends :
            st'.positions[sym] = st.positions[sym] =>
                should_close_position(st'.positions[sym], CloseData(trend), clock')
                    = should_close_position(st.positions[sym], CloseData(trend), clock)]_vars

\* C8: should_close_position is true iff, at the position's current price,
\* the stop-loss is hit, the take-profit is hit, the position was held for
\* max_hold_days (14) or more, the trend is opposite to the side, or the
\* trailing stop is breached; the first of these, in this order, decides.
C8_CloseIffFirstCondition ==
    \A sym \in DOMAIN st.positions, trend \in Trends :
        LET position == st.positions[sym]
            price == position.current_price
            long == position.side = "buy"
            stop_hit == /\ position.stop_loss # None
                        /\ IF long THEN price <= position.stop_loss
                           ELSE price >= position.stop_loss
            target_hit == /\ position.take_profit # None
                          /\ IF long THEN price >= position.take_profit
                             ELSE price <= position.take_profit
            held == (clock - position.timestamp) \div HoursPerDay >= max_hold_days
            opposite == \/ long /\ trend = "bearish"
                        \/ ~long /\ trend = "bullish"
            trailing == IF long
                        THEN /\ position.peak_price # None
                             /\ price * 100 <= position.peak_price * (100 - trailing_percentage)
                        ELSE /\ position.valley_price # None
                             /\ price * 100 >= position.valley_price * (100 + trailing_percentage)
            first == IF stop_hit THEN "Stop-loss triggered"
                     ELSE IF target_hit THEN "Take-profit triggered"
                     ELSE IF held THEN "Max hold time reached"
                     ELSE IF opposite THEN "Trend reversal detected"
                     ELSE IF trailing THEN "Trailing stop triggered"
                     ELSE ""
        IN /\ should_close_position(position, CloseData(trend), clock)
                <=> (stop_hit \/ target_hit \/ held \/ opposite \/ trailing)
           /\ close_reason(position, CloseData(trend), clock) = first

C8_Witness ==
    /\ ret.op = "should_close_position"
    /\ ret.flag
    /\ ret.arg = "Trailing stop triggered"

\* C9: a long position opened from a strong-buy signal whose price is updated
\* to its take_profit or above makes should_close_position true; removing it
\* at that price gives a pnl > 0, leaves the strategy without a position for
\* the symbol, and adds one to winning_trades and to total_trades.
C9_TakeProfitRoundTrip ==
    [][/\ \A sym \in DOMAIN st'.positions, trend \in Trends :
            LET position == st'.positions[sym]
            IN (/\ position.side = "buy"
                /\ position.order_id = "STRONG_BUY"
                /\ position.current_price >= position.take_profit)
               => should_close_position(position, CloseData(trend), clock')
       /\ \A sym \in DOMAIN st.positions :
            LET position == st.positions[sym]
            IN (/\ ret'.op = "close_position"
                /\ Len(pm'.trade_history) = Len(pm.trade_history) + 1
                /\ ret'.symbol = sym
                /\ ~ret'.isnone
                /\ position.side = "buy"
                /\ position.order_id = "STRONG_BUY"
                /\ ret'.price >= position.take_profit)
               => /\ ret'.val > 0
                  /\ st'.total_pnl > st.total_pnl
                  /\ sym \notin DOMAIN st'.positions
                  /\ st'.winning_trades = st.winning_trades + 1
                  /\ st'.total_trades = st.total_trades + 1]_vars

C9_Witness ==
    /\ ret.op = "close_position"
    /\ ret.signal = "STRONG_BUY"
    /\ ret.val > 0
    /\ pm.trade_history[Len(pm.trade_history)].side = "buy"
    /\ ret.price >= 215
    /\ StrategySymbol \notin DOMAIN st.positions
    /\ st.winning_trades = 1
    /\ st.total_trades = 1

\* C10: closing gives pnl = (exit - entry) x size for a buy and
\* (entry - exit) x size for a sell, in PortfolioManager.close_position and in
\* BaseStrategy.remove_position alike, and the ledger adds exactly that pnl to
\* total_balance.
C10_RealizedPnl ==
    [][(/\ ret'.op = "close_position"
        /\ ~ret'.isnone
        /\ Len(pm'.trade_history) = Len(pm.trade_history) + 1) =>
         LET sym == ret'.symbol
             exit == ret'.price
             held == pm.positions[sym]
             pnl == IF held.side = "buy" THEN (exit - held.entry_price) * held.size
                    ELSE (held.entry_price - exit) * held.size
         IN /\ ret'.val = pnl
            /\ pm'.trade_history[Len(pm'.trade_history)].pnl = pnl
            /\ pm'.total_balance = pm.total_balance + pnl
            /\ sym \in DOMAIN st.positions =>
                 LET mine == st.positions[sym]
                 IN st'.total_pnl - st.total_pnl =
                        IF mine.side = "buy" THEN (exit - mine.entry_price) * mine.size
                        ELSE (mine.entry_price - exit) * mine.size]_vars

C10_Witness ==
    /\ ret.op = "close_position"
    /\ ~ret.isnone
    /\ ret.val < 0
    /\ pm.trade_history[Len(pm.trade_history)].side = "sell"
    /\ st.total_pnl = ret.val
    /\ pm.total_balance = 10000 + ret.val


\* ------------------------------------------------------------------------
\* CoinbaseClient._make_request: the retry loop around one call of the
\* exchange
\* ------------------------------------------------------------------------
MaxRetries == 3
retry_delay == 1

\* what _make_request looks for in str(e)
Markers == {"429", "rate limit", "401", "unauthorized"}

\* the message of an exception, as the set of the markers it contains
ErrorMessages == SUBSET Markers

\* str(RateLimitException()) of an acquire that timed out: "Rate limit exceeded"
AcquireTimeoutMessage == {"rate limit"}

classify_without_authentication(e) ==
    IF "429" \in e \/ "rate limit" \in e THEN "rate_limit" ELSE "generic"

\* the if / elif / else of the handler
classify(e) ==
    IF "429" \in e \/ "rate limit" \in e THEN "rate_limit"
    ELSE IF "401" \in e \/ "unauthorized" \in e THEN "authentication"
    ELSE "generic"

may_retry_once_more(attempt, max_retries) == attempt <= max_retries

\* if attempt < self.max_retries
may_retry(attempt, max_retries) == attempt < max_retries

RECURSIVE Pow2(_)
Pow2(n) == IF n = 0 THEN 1 ELSE 2 * Pow2(n - 1)

\* wait_time = self.retry_delay * (2 ** attempt)
backoff(attempt) == retry_delay * Pow2(attempt)

\* the call: for attempt in range(self.max_retries + 1)
RequestCall ==
    /\ rq.pc = "idle"
    /\ rq' = [rq EXCEPT !.pc = "acquire"]
    /\ UNCHANGED <<rl_vars, pm, st, bot, settings, clock, ret>>

\* self.rate_limiter.acquire(timeout=30): returns with the request recorded,
\* or raises RateLimitException inside the try
RequestAcquire ==
    /\ rq.pc = "acquire"
    /\ \/ rq' = [rq EXCEPT !.pc = "send", !.permits = @ + 1]
       \/ rq' = [rq EXCEPT !.pc = "except", !.e = AcquireTimeoutMessage]
    /\ UNCHANGED <<rl_vars, pm, st, bot, settings, clock, ret>>

\* self.rest_client.get / post / put / delete: a response, or an exception
RequestSend ==
    /\ rq.pc = "send"
    /\ \/ rq' = [rq EXCEPT !.pc = "done", !.requests = @ + 1, !.outcome = "response"]
       \/ \E e \in ErrorMessages :
            rq' = [rq EXCEPT !.pc = "except", !.requests = @ + 1, !.e = e]
    /\ UNCHANGED <<rl_vars, pm, st, bot, settings, clock, ret>>

\* except Exception as e: the sleep of the backoff is part of the step
RequestExcept ==
    /\ rq.pc = "except"
    /\ rq' =
        IF classify(rq.e) = "authentication"
        THEN [rq EXCEPT !.pc = "done", !.outcome = "AuthenticationException"]
        ELSE IF may_retry(rq.attempt, rq.max_retries)
        THEN [rq EXCEPT !.pc = "acquire", !.attempt = @ + 1, !.sleeps = @ + 1,
                        !.waited = @ + backoff(rq.attempt)]
        ELSE IF classify(rq.e) = "rate_limit"
        THEN [rq EXCEPT !.pc = "done", !.outcome = "RateLimitException"]
        ELSE [rq EXCEPT !.pc = "done", !.outcome = "CoinbaseAPIException"]
    /\ UNCHANGED <<rl_vars, pm, st, bot, settings, clock, ret>>

RequestInit ==
    /\ rq \in {[NoRequest EXCEPT !.max_retries = n] : n \in 0..MaxRetries}
    /\ pm = NewPortfolio(0)
    /\ ret = NoCall
    /\ RLQuiet
    /\ StrategyQuiet
    /\ BotQuiet

RequestNext ==
    \/ RequestCall
    \/ RequestAcquire
    \/ RequestSend
    \/ RequestExcept

\* acquire returns or raises within its timeout, the transport returns or
\* raises, and time.sleep returns
RequestFairness ==
    /\ WF_vars(RequestAcquire)
    /\ WF_vars(RequestSend)
    /\ WF_vars(RequestExcept)

SpecRequest == RequestInit /\ [][RequestNext]_vars /\ RequestFairness

RequestOutcomes ==
    {"response", "RateLimitException", "AuthenticationException", "CoinbaseAPIException"}

\* C24: _make_request sends at most max_retries + 1 requests in at most
\* max_retries + 1 rounds of its loop, every request has its own permit of
\* the rate limiter acquired just before it, and the call ends with a
\* response or with an exception: RateLimitException or CoinbaseAPIException
\* only when the last round, with no retry left, failed with an error of
\* that class.
C24_RequestTerminates ==
    /\ [](/\ rq.attempt <= rq.max_retries
          /\ rq.requests <= rq.attempt + 1
          /\ rq.permits = rq.requests + (IF rq.pc = "send" THEN 1 ELSE 0)
          /\ rq.pc = "done" =>
                /\ rq.outcome \in RequestOutcomes
                /\ rq.outcome = "RateLimitException" =>
                      /\ rq.attempt = rq.max_retries
                      /\ ("429" \in rq.e \/ "rate limit" \in rq.e)
                /\ rq.outcome = "CoinbaseAPIException" =>
                      /\ rq.attempt = rq.max_retries
                      /\ rq.e = {})
    /\ (rq.pc # "idle") ~> (rq.pc = "done")

\* every round failed and the last one, with all retries used, gives up
C24_Witness ==
    /\ rq.pc = "done"
    /\ rq.max_retries >= 1
    /\ rq.requests = rq.max_retries + 1
    /\ rq.outcome = "CoinbaseAPIException"

MaxReadings == 2
CombineStrengths == {0, 50, 100}
CombineWeights == {1, 2}

\* IndicatorResult(signal, strength)
CombineReadings == [signal : SignalTypes, strength : CombineStrengths]

CombineInputs ==
    UNION {[indicators : [1..n -> CombineReadings], weights : [1..n -> CombineWeights]] :
             n \in 1..MaxReadings}

\* the sum of indicator.strength * weight over the readings of a group
group_score(indicators, weights, group) ==
    DictSum([k \in {j \in DOMAIN indicators : indicators[j].signal \in group} |->
                indicators[k].strength * weights[k]])

\* combine_signals: each weight is divided by total_weight, so each score is
\* its sum over 100 * total_weight
combine_signals(indicators, weights) ==
    LET total_weight == DictSum(weights)
        d == 100 * total_weight
        buy == group_score(indicators, weights, {"BUY", "STRONG_BUY"})
        sell == group_score(indicators, weights, {"SELL", "STRONG_SELL"})
        hold == group_score(indicators, weights, {"HOLD"})
        max_score == Max(buy, Max(sell, hold))
    IN [buy_score |-> Frac(buy, d),
        sell_score |-> Frac(sell, d),
        hold_score |-> Frac(hold, d),
        signal |-> IF max_score = buy /\ 10 * buy > 6 * d
                   THEN (IF 10 * buy > 8 * d THEN "STRONG_BUY" ELSE "BUY")
                   ELSE IF max_score = sell /\ 10 * sell > 6 * d
                   THEN (IF 10 * sell > 8 * d THEN "STRONG_SELL" ELSE "SELL")
                   ELSE "HOLD",
        strength |-> Frac(max_score, d)]

CombineInit ==
    /\ ret \in {[NoCall EXCEPT !.arg = input] : input \in CombineInputs}
    /\ pm = NewPortfolio(0)
    /\ RLQuiet
    /\ StrategyQuiet
    /\ BotQuiet
    /\ RequestQuiet

CombineCall ==
    /\ ret.op = "none"
    /\ ret' = [Returned("combine_signals", "", 0, 0) EXCEPT
                 !.arg = ret.arg,
                 !.val = combine_signals(ret.arg.indicators, ret.arg.weights)]
    /\ UNCHANGED <<pm, st, bot, clock, settings, rl_vars, rq>>

CombineNext == CombineCall

SpecCombine == CombineInit /\ [][CombineNext]_vars

\* C29: the buy, sell and hold scores that combine_signals returns sum to 1.
C29_ScoresSumToOne ==
    ret.op = "combine_signals" =>
        ret.val.buy_score.n + ret.val.sell_score.n + ret.val.hold_score.n
            = ret.val.buy_score.d

\* ------------------------------------------------------------------------
\* TrendAnalyzer._determine_trend called on its own: prices are whole units,
\* a change is in tenths of a percent, a strength in thousandths
\* ------------------------------------------------------------------------
TrendLongMAs == {1000}
TrendShortMAs == {980, 1000, 1030, 1100}
TrendFirstPrices == {1000}
TrendLastPrices == {900, 985, 1000, 1020, 1100}
HalfStrength == 500
FullStrength == 1000

\* indicators['moving_averages'].value, when the indicator is there
TrendMovingAverages ==
    {[present |-> FALSE, short_ma |-> 0, long_ma |-> 0, divergence |-> 0]}
    \cup {[present |-> TRUE, short_ma |-> short, long_ma |-> long,
           divergence |-> ((IF short >= long THEN short - long ELSE long - short) * 1000)
                              \div long] :
            short \in TrendShortMAs, long \in TrendLongMAs}

\* prices: fewer than 10 closes, or the first and last of the last 10
TrendPrices ==
    {[enough |-> FALSE, first |-> first, last |-> first] : first \in TrendFirstPrices}
    \cup {[enough |-> TRUE, first |-> first, last |-> last] :
            first \in TrendFirstPrices, last \in TrendLastPrices}

TrendInputs ==
    [ma : TrendMovingAverages, prices : TrendPrices, combined_signal : SignalTypes]

Trend(trend, strength) == [trend |-> trend, strength |-> strength]

\* min(x / 5.0, 1.0) for x in tenths of a percent
strength_of(tenths) == Min(tenths * 20, FullStrength)

\* the trend of the moving averages
ma_trend(ma) ==
    IF ma.present /\ ma.short_ma > ma.long_ma
    THEN Trend("bullish", strength_of(ma.divergence))
    ELSE IF ma.present /\ ma.short_ma < ma.long_ma
    THEN Trend("bearish", strength_of(ma.divergence))
    ELSE Trend("sideways", HalfStrength)

\* the trend of the last 10 prices: more than 1% up or down
price_trend(prices) ==
    LET up == ((prices.last - prices.first) * 1000) \div prices.first
        down == ((prices.first - prices.last) * 1000) \div prices.first
    IN IF prices.enough /\ prices.last > prices.first /\ up > 10
       THEN Trend("bullish", strength_of(up))
       ELSE IF prices.enough /\ prices.last < prices.first /\ down > 10
       THEN Trend("bearish", strength_of(down))
       ELSE Trend("sideways", HalfStrength)

\* the two trends combined
combined_trend(ma, price) ==
    IF ma.trend = price.trend
    THEN Trend(ma.trend, (ma.strength + price.strength) \div 2)
    ELSE IF ma.strength > price.strength
    THEN Trend(ma.trend, (ma.strength * 7 + price.strength * 3) \div 10)
    ELSE Trend(price.trend, (price.strength * 7 + ma.strength * 3) \div 10)

determine_trend_undamped(ma, prices, combined_signal) ==
    combined_trend(ma_trend(ma), price_trend(prices))

\* _determine_trend, with the adjustment to the combined signal
determine_trend(ma, prices, combined_signal) ==
    LET final == combined_trend(ma_trend(ma), price_trend(prices))
    IN IF combined_signal \in {"BUY", "STRONG_BUY"} /\ final.trend = "bearish"
       THEN Trend("sideways", HalfStrength)
       ELSE IF combined_signal \in {"SELL", "STRONG_SELL"} /\ final.trend = "bullish"
       THEN Trend("sideways", HalfStrength)
       ELSE final

TrendInit ==
    /\ ret \in {[NoCall EXCEPT !.arg = input] : input \in TrendInputs}
    /\ pm = NewPortfolio(0)
    /\ RLQuiet
    /\ StrategyQuiet
    /\ BotQuiet
    /\ RequestQuiet

TrendCall ==
    /\ ret.op = "none"
    /\ ret' = [Returned("_determine_trend", "", 0, 0) EXCEPT
                 !.arg = ret.arg,
                 !.val = determine_trend(ret.arg.ma, ret.arg.prices,
                                         ret.arg.combined_signal)]
    /\ UNCHANGED <<pm, st, bot, clock, settings, rl_vars, rq>>

TrendNext == TrendCall

SpecTrend == TrendInit /\ [][TrendNext]_vars

\* the trend of the moving averages and the prices of a call, before the
\* adjustment
TrendBefore ==
    combined_trend(ma_trend(ret.arg.ma), price_trend(ret.arg.prices))

\* the call is one where the trend found contradicts the combined signal
TrendConflict ==
    \/ ret.arg.combined_signal \in {"BUY", "STRONG_BUY"} /\ TrendBefore.trend = "bearish"
    \/ ret.arg.combined_signal \in {"SELL", "STRONG_SELL"} /\ TrendBefore.trend = "bullish"

\* C30: _determine_trend never returns bearish with a combined signal of buy
\* or strong buy, nor bullish with sell or strong sell; where the moving
\* averages and the prices give such a trend, it returns sideways with
\* strength 0.5.
C30_TrendNeverContradictsSignal ==
    ret.op = "_determine_trend" =>
        /\ ret.arg.combined_signal \in {"BUY", "STRONG_BUY"} => ret.val.trend # "bearish"
        /\ ret.arg.combined_signal \in {"SELL", "STRONG_SELL"} => ret.val.trend # "bullish"
        /\ TrendConflict => ret.val = Trend("sideways", HalfStrength)

\* a strong bearish trend of averages and prices met a buy signal
C30_Witness ==
    /\ ret.op = "_determine_trend"
    /\ ret.arg.combined_signal = "BUY"
    /\ TrendBefore = Trend("bearish", FullStrength)
    /\ ret.val = Trend("sideways", HalfStrength)


\* ------------------------------------------------------------------------
\* TechnicalIndicators.rsi called on its own. The exponentially weighted
\* means of the gains and of the losses have the same weights, so their
\* ratio is the ratio of the weighted sums: with span = period the weight of
\* a change falls by (period - 1) / (period + 1) per step back. A float that
\* is not a number is kept as such.
\* ------------------------------------------------------------------------
MaxSeries == 4
RsiPeriods == {2}
RsiPrices == {100, 101, 102}
overbought == 70
oversold == 30

RsiInputs ==
    UNION {[prices : [1..n -> RsiPrices], period : RsiPeriods] : n \in 2..MaxSeries}

\* a float: a fraction n / d, or NaN
Float(n, d) == [nan |-> FALSE, n |-> n, d |-> d]
NaN == [nan |-> TRUE, n |-> 0, d |-> 1]

RECURSIVE Power(_, _)
Power(b, e) == IF e = 0 THEN 1 ELSE b * Power(b, e - 1)

\* the weight that ewm(span=period) gives to the change into prices[k], up
\* to a factor common to all changes
ewm_weight(prices, period, k) ==
    Power(period - 1, Len(prices) - k) * Power(period + 1, k - 2)

\* gains = delta.where(delta > 0, 0); losses = -delta.where(delta < 0, 0)
gain(prices, k) == Max(prices[k] - prices[k - 1], 0)
loss(prices, k) == Max(prices[k - 1] - prices[k], 0)

avg_gains(prices, period) ==
    DictSum([k \in 2..Len(prices) |-> ewm_weight(prices, period, k) * gain(prices, k)])

avg_losses(prices, period) ==
    DictSum([k \in 2..Len(prices) |-> ewm_weight(prices, period, k) * loss(prices, k)])

\* rs = avg_gains / avg_losses; rsi = 100 - (100 / (1 + rs)): 0 / 0 is NaN,
\* x / 0 is inf and gives 100
current_rsi(prices, period) ==
    LET g == avg_gains(prices, period)
        l == avg_losses(prices, period)
    IN IF g = 0 /\ l = 0 THEN NaN
       ELSE Float(100 * g, g + l)

\* the signal and its strength: a comparison with NaN is false
rsi_reading(value) ==
    IF value.nan
    THEN [value |-> value, signal |-> "HOLD", strength |-> NaN]
    ELSE IF value.n >= overbought * value.d
    THEN [value |-> value, signal |-> "SELL",
          strength |-> Float(value.n - overbought * value.d, (100 - overbought) * value.d)]
    ELSE IF value.n <= oversold * value.d
    THEN [value |-> value, signal |-> "BUY",
          strength |-> Float(oversold * value.d - value.n, oversold * value.d)]
    ELSE [value |-> value, signal |-> "HOLD",
          strength |-> Float(50 * value.d - Min(overbought * value.d - value.n,
                                                value.n - oversold * value.d),
                             50 * value.d)]

\* validate_data(prices, period + 1)
rsi_raises(prices, period) == Len(prices) < period + 1

rsi(prices, period) == rsi_reading(current_rsi(prices, period))

RsiInit ==
    /\ ret \in {[NoCall EXCEPT !.arg = input] : input \in RsiInputs}
    /\ pm = NewPortfolio(0)
    /\ RLQuiet
    /\ StrategyQuiet
    /\ BotQuiet
    /\ RequestQuiet

RsiCall ==
    /\ ret.op = "none"
    /\ ret' =
        IF rsi_raises(ret.arg.prices, ret.arg.period)
        THEN [Raised("rsi", "", 0, "InsufficientDataException") EXCEPT !.arg = ret.arg]
        ELSE [Returned("rsi", "", 0, 0) EXCEPT
                !.arg = ret.arg, !.val = rsi(ret.arg.prices, ret.arg.period)]
    /\ UNCHANGED <<pm, st, bot, clock, settings, rl_vars, rq>>

RsiNext == RsiCall

SpecRsi == RsiInit /\ [][RsiNext]_vars

\* all prices of the series are the same
flat(prices) == \A k \in DOMAIN prices : prices[k] = prices[1]

\* C31: the RSI of a series without any price change is a number close to
\* 50 (within 5) with signal HOLD, not an undefined value.
C31_FlatSeriesGivesNeutralRsi ==
    (ret.op = "rsi" /\ ret.raised = "" /\ flat(ret.arg.prices)) =>
        /\ ~ret.val.value.nan
        /\ 45 * ret.val.value.d <= ret.val.value.n
        /\ ret.val.value.n <= 55 * ret.val.value.d
        /\ ret.val.signal = "HOLD"


\* ------------------------------------------------------------------------
\* SignalBot._is_new_signal called on its own: the last recorded signal of
\* the symbol, if there is one, with its age in seconds, and the analysis
\* ------------------------------------------------------------------------
spam_window == 300
confidence_step == 20
DedupSignals == {"BUY", "SELL"}
DedupConfidences == {60, 75, 85}
DedupAges == {0, 299, 300, 301, 600}

\* last_signals.get(symbol): nothing, or the SignalResult recorded
DedupLast ==
    {[present |-> FALSE, signal |-> "HOLD", confidence |-> 0, age |-> 0]}
    \cup {[present |-> TRUE, signal |-> sig, confidence |-> c, age |-> a] :
            sig \in DedupSignals, c \in DedupConfidences, a \in DedupAges}

DedupInputs ==
    [last : DedupLast, analysis : [signal : DedupSignals, confidence : DedupConfidences]]

\* _is_new_signal(symbol, analysis), with age = datetime.now() - timestamp
is_new_signal(last, analysis) ==
    IF ~last.present THEN TRUE
    ELSE IF last.signal # analysis.signal THEN TRUE
    ELSE IF last.age < spam_window THEN FALSE
    ELSE analysis.confidence - last.confidence > confidence_step

DedupInit ==
    /\ ret \in {[NoCall EXCEPT !.arg = input] : input \in DedupInputs}
    /\ pm = NewPortfolio(0)
    /\ RLQuiet
    /\ StrategyQuiet
    /\ BotQuiet
    /\ RequestQuiet

DedupCall ==
    /\ ret.op = "none"
    /\ ret' = [ReturnedBool("_is_new_signal", "", 0,
                            is_new_signal(ret.arg.last, ret.arg.analysis))
                 EXCEPT !.arg = ret.arg]
    /\ UNCHANGED <<pm, st, bot, clock, settings, rl_vars, rq>>

DedupNext == DedupCall

SpecDedup == DedupInit /\ [][DedupNext]_vars

\* C32: the first signal of a symbol is new; a signal of the type last
\* recorded is not new while less than 5 minutes have passed since that
\* one, and is new once more than 5 minutes have passed.
C32_SameSignalNewAfterFiveMinutes ==
    ret.op = "_is_new_signal" =>
        /\ ~ret.arg.last.present => ret.flag
        /\ (ret.arg.last.present /\ ret.arg.last.signal = ret.arg.analysis.signal) =>
              /\ ret.arg.last.age < spam_window => ~ret.flag
              /\ ret.arg.last.age > spam_window => ret.flag

====
